---- MODULE Spec2Model ----
(***************************************************************************)
(* Transactional outbox and at-least-once delivery of the Fintegrate       *)
(* customer service: event records (customer_events), delivery receipts    *)
(* (consumer_event_receipts), the request handlers that record and publish *)
(* an event, the Resend and Redeliver sweepers and confirm-delivery.       *)
(*                                                                         *)
(* Every request runs in its own SQLAlchemy session.  A session holds, for *)
(* each row it has loaded, the values as loaded and the values as set by   *)
(* the handler; commit writes the columns whose value differs from the     *)
(* loaded one (the ORM's UPDATE of changed attributes) over whatever the   *)
(* row holds at that moment.                                               *)
(***************************************************************************)
EXTENDS Integers, Sequences, FiniteSets, TLC

\* ---------------------------------------------------------------- bounds
NumEvents == 1          \* requests that record an event (one event id each)
MaxInFlight == 2        \* requests in progress at the same time
MaxDeliverCount == 11   \* deliver_try_count up to which the broker still accepts a redelivery
MaxLiveDeliverCount == 3 \* deliver_try_count up to which SpecLive starts a Redeliver run
MaxEtlClock == 3        \* instants of the analytics ETL's clock
NumEtlRows == 2         \* rows inserted into customers and customer_events
NumKeyRequests == 2     \* rotate / deactivate requests that may overlap
MaxKeys == 3            \* rows of consumer_api_keys
NumRateRequests == 3    \* authenticated requests meeting the rate limiter
MaxRateClock == 4       \* instants of the rate limiter's clock
SecondsPerTick == 30    \* seconds between two instants of that clock
limit == 2              \* settings.rate_limit_api_key_per_minute as configured

\* ------------------------------------------------------ program constants
MaxPublishTries == 10   \* routes.py: if event.publish_try_count >= 10
MaxDeliverTries == 10   \* routes.py: if event.deliver_try_count >= 10

PUBLISH_ERROR_RABBITMQ_FALSE == "RabbitMQ publish returned False"
PUBLISH_ERROR_PUBLISHER_NONE == "EventPublisher connection is None"
PublishException == "Exception"   \* f"{type(e).__name__}: {str(e)}"
ConsumerFailure == "consumer failure reason"

Null == "NULL"          \* SQL NULL / Python None in a nullable column
Stamp == "utcnow"       \* a timestamp taken from utcnow()

EventIds == 1..NumEvents
UnknownEventId == NumEvents + 1     \* a UUID no event record carries

\* Optional[T]: <<>> is None, <<x>> is x
None == <<>>
Some(x) == <<x>>
IsNone(o) == o = <<>>
Val(o) == o[1]

\* Event types recorded by the request handlers of routes.py
EventTypes ==
  {"customer_creation", "customer_status_change", "consumer_created", "customer_deletion"}

\* crud.create_consumer writes the consumer, its key and the event in one
\* commit; the customer handlers commit the mutation, then the event.
AtomicRecord(event_type) == event_type = "consumer_created"

\* The sweepers rebuild the message from payload_json["customer_id"]; the
\* consumer events carry "consumer_id" only, UUID(None) raises TypeError.
HasCustomerId(event_type) ==
  event_type \in {"customer_creation", "customer_status_change", "customer_deletion"}

\* delete_customer records and publishes the event first and deletes the
\* customer afterwards.
EventFirst(event_type) == event_type = "customer_deletion"

\* create_customer passes consumer_id= to publish_event, which has no such
\* parameter: the call raises TypeError before any broker interaction.
PublishCallRaises(event_type) == event_type = "customer_creation"

VARIABLES
  now,        \* the clock, in days
  customers,  \* request ids whose business mutation is committed
  events,     \* customer_events: event_id -> row
  receipts,   \* consumer_event_receipts: sequence of rows
  emitted,    \* broker: event ids of which it has accepted a message
  handler,    \* per request: the handler's position and session
  resend,     \* per Resend Sweeper run: position, session, summary
  redeliver,  \* per Redeliver Sweeper run
  confirm,    \* per confirm-delivery request
  bindings,   \* broker: queue bindings of the exchange customer_events
  queues,     \* broker: declared queue -> messages it holds, oldest first
  consuming,  \* consumer names whose simple_consumer process is running
  confirmations, \* confirm-delivery calls the consumers have made
  channel_calls, \* what the last callback called on its channel, in order
  customer_rows, \* customers: customer_id -> row (consumer_id, status)
  crud_call,     \* the last call of a crud function and what it returned
  etl_clock,     \* analytics ETL: the current instant
  etl_rows,      \* analytics ETL: row id -> table and created_at
  etl_watermark, \* etl_job_watermarks row of consumer_analytics_daily
  etl_snapshots, \* consumer_analytics: snapshots committed
  etl_run,       \* the DAG run in progress: XCom values, load tries
  consumer_rows, \* consumers: ids of the rows, all of status active
  api_keys,      \* consumer_api_keys as committed: rows, oldest first
  key_events,    \* customer_events rows the key operations have committed
  key_txn,       \* per rotate / deactivate request: its open transaction
  rl_clock,      \* rate limiter: the current instant
  redis,         \* Redis: key -> value and expiry time
  rl_requests    \* per request: position in rate_limit_middleware, locals

\* The broker and the consumer processes
mq == <<bindings, queues, consuming, confirmations, channel_calls>>

\* The customers table as crud.py reads and writes it
crud == <<customer_rows, crud_call>>

\* The analytics ETL (consumer_analytics_etl.py) and the tables it reads
etl == <<etl_clock, etl_rows, etl_watermark, etl_snapshots, etl_run>>

\* Consumers and their API keys (crud.py create_consumer, rotate_api_key,
\* deactivate_api_key)
keys == <<consumer_rows, api_keys, key_events, key_txn>>

\* The rate limiter (middleware.py rate_limit_middleware) and its Redis
rate == <<rl_clock, redis, rl_requests>>

vars == <<now, customers, events, receipts, emitted, handler, resend, redeliver, confirm, mq, crud, etl, keys, rate>>

ResendIds == {"rs1", "rs2"}
RedeliverIds == {"rd1"}
ConfirmIds == {"cf1", "cf2"}

\* ------------------------------------------------------------- the rows
\* crud.create_customer_event / CustomerEvent(...) as the handlers call it
NewEvent(event_type, created_at) ==
  [ event_type |-> event_type,
    created_at |-> created_at,
    publish_status |-> "pending",
    published_at |-> Null,
    publish_try_count |-> 1,
    publish_last_tried_at |-> Stamp,
    publish_failure_reason |-> Null,
    deliver_status |-> "pending",
    delivered_at |-> Null,
    deliver_try_count |-> 0,
    deliver_last_tried_at |-> Null,
    deliver_failure_reason |-> Null ]

\* The attributes of a loaded CustomerEvent that a handler reads or assigns;
\* the others take no part in what the handler does or writes.
Load(row, columns) == [c \in columns |-> row[c]]

\* Session.commit(): UPDATE ... SET <changed columns> WHERE event_id = ...
Flush(row, loaded, cur) ==
  [c \in DOMAIN row |->
     IF c \in DOMAIN cur /\ cur[c] # loaded[c] THEN cur[c] ELSE row[c]]

\* commit of a session holding the objects of `ids`
CommitSession(ids, loaded, cur) ==
  [e \in DOMAIN events |->
     IF e \in ids THEN Flush(events[e], loaded[e], cur[e]) ELSE events[e]]

NoObjects == <<>>

\* get_event_publisher(): the singleton is constructed without connecting
get_event_publisher == TRUE

\* No crud function called yet
NoCall == [fn |-> "none"]

\* ------------------------------------------------------------------ Init
\* get_watermark: epoch (1970-01-01) when the row holds no timestamp
Epoch == 0

\* No DAG run in progress: nothing pushed to XCom, load not tried
IdleEtlRun ==
  [ customer_metrics |-> None, event_metrics |-> None, watermark |-> None,
    load_tries |-> 0 ]

RateRequestIds == 1..NumRateRequests

\* A request that has not reached the middleware
IdleRequest ==
  [pc |-> "idle", consumer_id |-> "none", minute_bucket |-> 0, current_count |-> 0,
   incr_at |-> 0]

\* Redis up and empty
InitRate ==
  /\ rl_clock = 0
  /\ redis = <<>>
  /\ rl_requests = [r \in RateRequestIds |-> IdleRequest]

KeyRequestIds == 1..NumKeyRequests

\* No transaction open
IdleKeyTxn == [pc |-> "idle", op |-> "none", consumer_id |-> "none", targets |-> {}]

\* No consumer created yet
InitKeys ==
  /\ consumer_rows = {}
  /\ api_keys = <<>>
  /\ key_events = <<>>
  /\ key_txn = [t \in KeyRequestIds |-> IdleKeyTxn]

\* The job's watermark row exists and holds no timestamp yet; no rows, no
\* snapshots.
InitEtl ==
  /\ etl_clock = 1
  /\ etl_rows = <<>>
  /\ etl_watermark = [last_processed_timestamp |-> Epoch, last_run_status |-> "none"]
  /\ etl_snapshots = {}
  /\ etl_run = IdleEtlRun

IdleSweep ==
  [ pc |-> "idle", skip |-> {}, todo |-> {},
    loaded |-> NoObjects, cur |-> NoObjects,
    total_pending |-> 0, attempted |-> 0, succeeded |-> 0, failed |-> 0,
    skipped |-> 0, failed_events |-> {} ]

IdleConfirm ==
  [ pc |-> "idle", event_id |-> UnknownEventId, status |-> "none",
    loaded |-> NoObjects, existing_receipt |-> FALSE, response |-> 0 ]

Init ==
  /\ now = 0
  /\ customers = {}
  /\ events = <<>>
  /\ receipts = <<>>
  /\ emitted = {}
  /\ handler = [r \in EventIds |-> [pc |-> "idle", op |-> "none"]]
  /\ resend = [s \in ResendIds |-> IdleSweep]
  /\ redeliver = [s \in RedeliverIds |-> IdleSweep]
  /\ confirm = [c \in ConfirmIds |-> IdleConfirm]
  /\ bindings = {}
  /\ queues = <<>>
  /\ consuming = {}
  /\ confirmations = {}
  /\ channel_calls = <<>>
  /\ customer_rows = <<>>
  /\ crud_call = NoCall
  /\ InitEtl
  /\ InitKeys
  /\ InitRate

\* Requests the service is working on at this moment.
InFlight ==
  Cardinality({r \in EventIds : handler[r].pc \notin {"idle", "done", "failed"}})
  + Cardinality({s \in ResendIds : resend[s].pc # "idle"})
  + Cardinality({s \in RedeliverIds : redeliver[s].pc # "idle"})
  + Cardinality({c \in ConfirmIds : confirm[c].pc # "idle"})

\* A request is taken up when a worker is free.
WorkerFree == InFlight < MaxInFlight

\* ------------------------------------------------------ request handlers
\* The event object the handler holds: db.refresh(db_event) after the commit
\* that inserted it.
HandlerLoaded(r) == NewEvent(events[r].event_type, events[r].created_at)

\* crud.create_customer / crud.update_customer_status: db.commit() of the
\* business mutation alone.
BusinessCommit(r, op) ==
  /\ handler[r].pc = "idle"
  /\ WorkerFree
  /\ ~AtomicRecord(op) /\ ~EventFirst(op)
  /\ customers' = customers \cup {r}
  /\ handler' = [handler EXCEPT ![r] = [pc |-> "mutated", op |-> op]]
  /\ UNCHANGED <<rate, keys, etl, crud, mq, now, events, receipts, emitted, resend, redeliver, confirm>>

\* crud.create_customer_event: db.add(db_event); db.commit(); db.refresh()
RecordEvent(r) ==
  /\ handler[r].pc = "mutated"
  /\ events' = events @@ (r :> NewEvent(handler[r].op, now))
  /\ handler' = [handler EXCEPT ![r].pc = "recorded"]
  /\ UNCHANGED <<rate, keys, etl, crud, mq, now, customers, receipts, emitted, resend, redeliver, confirm>>

\* delete_customer: crud.create_customer_event before the deletion
RecordEventFirst(r, op) ==
  /\ handler[r].pc = "idle"
  /\ WorkerFree
  /\ EventFirst(op)
  /\ events' = events @@ (r :> NewEvent(op, now))
  /\ handler' = [handler EXCEPT ![r] = [pc |-> "recorded", op |-> op]]
  /\ UNCHANGED <<rate, keys, etl, crud, mq, now, customers, receipts, emitted, resend, redeliver, confirm>>

\* crud.create_consumer: consumer, api key and event added, one db.commit()
BusinessCommitWithEvent(r, op) ==
  /\ handler[r].pc = "idle"
  /\ WorkerFree
  /\ AtomicRecord(op)
  /\ customers' = customers \cup {r}
  /\ events' = events @@ (r :> NewEvent(op, now))
  /\ handler' = [handler EXCEPT ![r] = [pc |-> "recorded", op |-> op]]
  /\ UNCHANGED <<rate, keys, etl, crud, mq, now, receipts, emitted, resend, redeliver, confirm>>

\* publisher.publish_event(...) as called by the handler: True when the
\* broker took the message, False on any exception inside publish_event,
\* and a raise when the call itself is ill-formed.
HandlerPublish(r) ==
  /\ handler[r].pc = "recorded"
  /\ IF PublishCallRaises(handler[r].op)
     THEN /\ handler' = [handler EXCEPT ![r].pc = "pub_raise"]
          /\ UNCHANGED emitted
     ELSE \/ /\ emitted' = emitted \cup {r}
             /\ handler' = [handler EXCEPT ![r].pc = "pub_true"]
          \/ /\ handler' = [handler EXCEPT ![r].pc = "pub_false"]
             /\ UNCHANGED emitted
  /\ UNCHANGED <<rate, keys, etl, crud, mq, now, customers, events, receipts, resend, redeliver, confirm>>

\* Faulty variant: a raise of the publish call leaves no trace on the record.
HandlerSetRaiseUnrecorded(obj, outcome) ==
  CASE outcome = "pub_true" ->
         [obj EXCEPT !.publish_status = "published",
                     !.published_at = Stamp,
                     !.publish_failure_reason = Null,
                     !.deliver_try_count = 1,
                     !.deliver_last_tried_at = Stamp]
    [] outcome = "pub_false" ->
         [obj EXCEPT !.publish_failure_reason = PUBLISH_ERROR_RABBITMQ_FALSE]
    [] outcome = "pub_raise" -> obj

\* Faulty variant: a failed first attempt counted as one more try.
HandlerSetCountsFailure(obj, outcome) ==
  CASE outcome = "pub_true" ->
         [obj EXCEPT !.publish_status = "published",
                     !.published_at = Stamp,
                     !.publish_failure_reason = Null,
                     !.deliver_try_count = 1,
                     !.deliver_last_tried_at = Stamp]
    [] outcome = "pub_false" ->
         [obj EXCEPT !.publish_failure_reason = PUBLISH_ERROR_RABBITMQ_FALSE,
                     !.publish_try_count = @ + 1]
    [] outcome = "pub_raise" ->
         [obj EXCEPT !.publish_failure_reason = PublishException,
                     !.publish_try_count = @ + 1]

\* The attribute assignments of the handler after publish_event returned.
HandlerSet(obj, outcome) ==
  CASE outcome = "pub_true" ->
         [obj EXCEPT !.publish_status = "published",
                     !.published_at = Stamp,
                     !.publish_failure_reason = Null,
                     !.deliver_try_count = 1,
                     !.deliver_last_tried_at = Stamp]
    [] outcome = "pub_false" ->
         [obj EXCEPT !.publish_failure_reason = PUBLISH_ERROR_RABBITMQ_FALSE]
    [] outcome = "pub_raise" ->
         [obj EXCEPT !.publish_failure_reason = PublishException]

\* db.commit() of the handler, then the success response.
HandlerCommit(r) ==
  /\ handler[r].pc \in {"pub_true", "pub_false", "pub_raise"}
  /\ events' = [events EXCEPT ![r] =
                  Flush(@, HandlerLoaded(r), HandlerSet(HandlerLoaded(r), handler[r].pc))]
  /\ handler' = [handler EXCEPT ![r].pc =
                  IF EventFirst(handler[r].op) THEN "committed" ELSE "done"]
  /\ UNCHANGED <<rate, keys, etl, crud, mq, now, customers, receipts, emitted, resend, redeliver, confirm>>

\* Faulty variant: the deletion takes the customer's event records with it.
DeleteCommitCascades(r) ==
  /\ handler[r].pc = "committed"
  /\ customers' = customers \cup {r}
  /\ events' = [e \in DOMAIN events \ {r} |-> events[e]]
  /\ handler' = [handler EXCEPT ![r].pc = "done"]
  /\ UNCHANGED <<rate, keys, etl, crud, mq, now, receipts, emitted, resend, redeliver, confirm>>

\* delete_customer: crud.delete_customer_tags, crud.delete_customer after the
\* publish attempt, then the success response.
DeleteCommit(r) ==
  /\ handler[r].pc = "committed"
  /\ customers' = customers \cup {r}
  /\ handler' = [handler EXCEPT ![r].pc = "done"]
  /\ UNCHANGED <<rate, keys, etl, crud, mq, now, events, receipts, emitted, resend, redeliver, confirm>>

\* An exception or a process death between two commits of the request: the
\* outer except returns 500; nothing of what was committed is undone.
HandlerFail(r) ==
  /\ handler[r].pc \in {"mutated", "recorded", "pub_true", "pub_false", "pub_raise",
                        "committed"}
  /\ handler' = [handler EXCEPT ![r].pc = "failed"]
  /\ UNCHANGED <<rate, keys, etl, crud, mq, now, customers, events, receipts, emitted, resend, redeliver, confirm>>

\* ------------------------------------------------------- Resend Sweeper
\* Inputs of POST /events/resend and /events/redeliver (schemas.py)
Periods == {1, 7}
MaxTryCounts == {None, Some(2), Some(10)}
TypeFilters == {None, Some({}), Some({"customer_status_change"})}

\* `if resend_request.event_types:` is false for None and for the empty list
Unfiltered(event_types) == IsNone(event_types) \/ Val(event_types) = {}

\* Faulty variant: the filter without its publish_status test.
ResendFilterAnyStatus(ev, period_in_days, max_try_count, event_types) ==
  /\ ev.created_at > now - period_in_days
  /\ IsNone(max_try_count) \/ ev.publish_try_count < Val(max_try_count)
  /\ Unfiltered(event_types) \/ ev.event_type \in Val(event_types)

\* Faulty variant: the filter taking every record that is not published.
ResendFilterNotPublished(ev, period_in_days, max_try_count, event_types) ==
  /\ ev.created_at > now - period_in_days
  /\ ev.publish_status # "published"
  /\ IsNone(max_try_count) \/ ev.publish_try_count < Val(max_try_count)
  /\ Unfiltered(event_types) \/ ev.event_type \in Val(event_types)

\* filters of resend_pending_events
ResendFilter(ev, period_in_days, max_try_count, event_types) ==
  /\ ev.created_at > now - period_in_days
  /\ ev.publish_status = "pending"
  /\ IsNone(max_try_count) \/ ev.publish_try_count < Val(max_try_count)
  /\ Unfiltered(event_types) \/ ev.event_type \in Val(event_types)

\* Attributes resend_pending_events reads or assigns
ResendColumns ==
  {"event_type", "publish_status", "published_at", "publish_try_count",
   "publish_last_tried_at", "publish_failure_reason"}

\* pending_events = db.query(CustomerEvent).filter(and_(*filters)).all()
ResendQuery(period_in_days, max_try_count, event_types) ==
  {e \in DOMAIN events : ResendFilter(events[e], period_in_days, max_try_count, event_types)}

\* if resend_request.max_try_count and event.publish_try_count >= max_try_count
ResendSkips(obj, max_try_count) ==
  ~IsNone(max_try_count) /\ obj.publish_try_count >= Val(max_try_count)

\* The query, the counters' initialisation and the publisher check.  The loop's
\* skip test reads the object as loaded by this query, so it is decided here.
ResendSelect(s, period_in_days, max_try_count, event_types) ==
  LET sel == ResendQuery(period_in_days, max_try_count, event_types)
      objs == [e \in sel |-> Load(events[e], ResendColumns)]
  IN /\ resend[s].pc = "idle"
     /\ WorkerFree
     /\ resend' = [resend EXCEPT ![s] =
          IF get_event_publisher
          THEN [IdleSweep EXCEPT !.pc = "loop",
                                 !.skip = {e \in sel : ResendSkips(objs[e], max_try_count)},
                                 !.todo = sel, !.loaded = objs, !.cur = objs,
                                 !.total_pending = Cardinality(sel)]
          ELSE IdleSweep]   \* summary: attempted=0, skipped=total_pending
     /\ UNCHANGED <<rate, keys, etl, crud, mq, now, customers, events, receipts, emitted, handler, redeliver, confirm>>

\* if publish_success: ... (routes.py, resend_pending_events)
ResendSucceeded(obj) ==
  [obj EXCEPT !.publish_status = "published",
              !.published_at = Stamp,
              !.publish_try_count = @ + 1,
              !.publish_last_tried_at = Stamp,
              !.publish_failure_reason = Null]

\* Faulty variant: the ceiling test taken one attempt late.
ResendFailedLateCeiling(obj, failure_reason) ==
  [obj EXCEPT !.publish_try_count = @ + 1,
              !.publish_last_tried_at = Stamp,
              !.publish_failure_reason = failure_reason,
              !.publish_status =
                 IF obj.publish_try_count + 1 > MaxPublishTries THEN "failed" ELSE @]

\* Faulty variant: a failed resend that does not count the attempt.
ResendFailedUncounted(obj, failure_reason) ==
  [obj EXCEPT !.publish_last_tried_at = Stamp,
              !.publish_failure_reason = failure_reason,
              !.publish_status =
                 IF obj.publish_try_count >= MaxPublishTries THEN "failed" ELSE @]

\* if not publish_success: ... (routes.py, resend_pending_events)
ResendFailed(obj, failure_reason) ==
  [obj EXCEPT !.publish_try_count = @ + 1,
              !.publish_last_tried_at = Stamp,
              !.publish_failure_reason = failure_reason,
              !.publish_status =
                 IF obj.publish_try_count + 1 >= MaxPublishTries THEN "failed" ELSE @]

SweepSkip(run, e) ==
  [run EXCEPT !.todo = @ \ {e}, !.skipped = @ + 1]

\* Faulty variant: a success that is not counted in succeeded.
SweepSuccessUncounted(run, e, obj) ==
  [run EXCEPT !.todo = @ \ {e}, !.cur[e] = obj,
              !.attempted = @ + 1]

SweepSuccess(run, e, obj) ==
  [run EXCEPT !.todo = @ \ {e}, !.cur[e] = obj,
              !.attempted = @ + 1, !.succeeded = @ + 1]

\* Faulty variant: a failed attempt ends the loop.
SweepFailureAborts(run, e, obj) ==
  [run EXCEPT !.todo = {}, !.cur[e] = obj,
              !.attempted = @ + 1, !.failed = @ + 1,
              !.failed_events = @ \cup {e}]

SweepFailure(run, e, obj) ==
  [run EXCEPT !.todo = @ \ {e}, !.cur[e] = obj,
              !.attempted = @ + 1, !.failed = @ + 1,
              !.failed_events = @ \cup {e}]

\* One iteration of `for event in pending_events` of resend_pending_events.
ResendAttempt(s, e) ==
  LET run == resend[s]
      obj == run.cur[e]
  IN /\ run.pc = "loop"
     /\ e \in run.todo
     /\ IF e \in run.skip
        THEN /\ resend' = [resend EXCEPT ![s] = SweepSkip(run, e)]
             /\ UNCHANGED emitted
        ELSE IF ~HasCustomerId(obj.event_type)
        THEN /\ resend' = [resend EXCEPT ![s] =
                             SweepFailure(run, e, ResendFailed(obj, PublishException))]
             /\ UNCHANGED emitted
        ELSE \/ /\ emitted' = emitted \cup {e}
                /\ resend' = [resend EXCEPT ![s] = SweepSuccess(run, e, ResendSucceeded(obj))]
             \/ /\ resend' = [resend EXCEPT ![s] =
                                SweepFailure(run, e, ResendFailed(obj, PUBLISH_ERROR_RABBITMQ_FALSE))]
                /\ UNCHANGED emitted
     /\ UNCHANGED <<rate, keys, etl, crud, mq, now, customers, events, receipts, handler, redeliver, confirm>>

\* db.commit() after the loop: every object the run changed is written; the
\* summary returned is the one the counters hold at this point.
ResendCommit(s) ==
  LET run == resend[s]
  IN /\ run.pc = "loop"
     /\ run.todo = {}
     /\ events' = CommitSession(DOMAIN run.cur, run.loaded, run.cur)
     /\ resend' = [resend EXCEPT ![s] = IdleSweep]
     /\ UNCHANGED <<rate, keys, etl, crud, mq, now, customers, receipts, emitted, handler, redeliver, confirm>>

\* ----------------------------------------------------- Redeliver Sweeper
\* Faulty variant: the filter without its publish_status test.
RedeliverFilterAnyPublish(ev, period_in_days, max_try_count, event_types) ==
  /\ ev.created_at > now - period_in_days
  /\ ev.deliver_status = "pending"
  /\ IsNone(max_try_count) \/ ev.deliver_try_count < Val(max_try_count)
  /\ Unfiltered(event_types) \/ ev.event_type \in Val(event_types)

\* filters of redeliver_pending_events
RedeliverFilter(ev, period_in_days, max_try_count, event_types) ==
  /\ ev.created_at > now - period_in_days
  /\ ev.publish_status = "published"
  /\ ev.deliver_status = "pending"
  /\ IsNone(max_try_count) \/ ev.deliver_try_count < Val(max_try_count)
  /\ Unfiltered(event_types) \/ ev.event_type \in Val(event_types)

\* Attributes redeliver_pending_events reads or assigns
RedeliverColumns ==
  {"event_type", "created_at", "deliver_status", "deliver_try_count",
   "deliver_last_tried_at", "deliver_failure_reason"}

RedeliverQuery(period_in_days, max_try_count, event_types) ==
  {e \in DOMAIN events : RedeliverFilter(events[e], period_in_days, max_try_count, event_types)}

\* if redeliver_request.max_try_count and event.deliver_try_count >= max_try_count
RedeliverSkips(obj, max_try_count) ==
  ~IsNone(max_try_count) /\ obj.deliver_try_count >= Val(max_try_count)

RedeliverSelect(s, period_in_days, max_try_count, event_types) ==
  LET sel == RedeliverQuery(period_in_days, max_try_count, event_types)
      objs == [e \in sel |-> Load(events[e], RedeliverColumns)]
  IN /\ redeliver[s].pc = "idle"
     /\ WorkerFree
     /\ redeliver' = [redeliver EXCEPT ![s] =
          IF get_event_publisher
          THEN [IdleSweep EXCEPT !.pc = "loop",
                                 !.skip = {e \in sel : RedeliverSkips(objs[e], max_try_count)},
                                 !.todo = sel, !.loaded = objs, !.cur = objs,
                                 !.total_pending = Cardinality(sel)]
          ELSE IdleSweep]   \* summary: attempted=0, skipped=total_pending
     /\ UNCHANGED <<rate, keys, etl, crud, mq, now, customers, events, receipts, emitted, handler, resend, confirm>>

\* Faulty variant: a successful re-publish taken for a delivery.
RedeliverSucceededDelivers(obj) ==
  [obj EXCEPT !.deliver_try_count = @ + 1,
              !.deliver_last_tried_at = Stamp,
              !.deliver_failure_reason = Null,
              !.deliver_status = "delivered"]

\* if publish_success: ... (routes.py, redeliver_pending_events)
RedeliverSucceeded(obj) ==
  [obj EXCEPT !.deliver_try_count = @ + 1,
              !.deliver_last_tried_at = Stamp,
              !.deliver_failure_reason = Null]

\* if not publish_success: ... (routes.py, redeliver_pending_events)
RedeliverFailed(obj, failure_reason) ==
  [obj EXCEPT !.deliver_try_count = @ + 1,
              !.deliver_last_tried_at = Stamp,
              !.deliver_failure_reason = failure_reason,
              !.deliver_status =
                 IF obj.deliver_try_count + 1 >= MaxDeliverTries THEN "failed" ELSE @]

\* order_by(CustomerEvent.created_at.asc())
OldestFirst(run, e) ==
  \A f \in run.todo : run.cur[e].created_at <= run.cur[f].created_at

RedeliverAttempt(s, e) ==
  LET run == redeliver[s]
      obj == run.cur[e]
  IN /\ run.pc = "loop"
     /\ e \in run.todo
     /\ OldestFirst(run, e)
     /\ IF e \in run.skip
        THEN /\ redeliver' = [redeliver EXCEPT ![s] = SweepSkip(run, e)]
             /\ UNCHANGED emitted
        ELSE IF ~HasCustomerId(obj.event_type)
        THEN /\ redeliver' = [redeliver EXCEPT ![s] =
                                SweepFailure(run, e, RedeliverFailed(obj, PublishException))]
             /\ UNCHANGED emitted
        ELSE \/ /\ obj.deliver_try_count < MaxDeliverCount
                /\ emitted' = emitted \cup {e}
                /\ redeliver' = [redeliver EXCEPT ![s] = SweepSuccess(run, e, RedeliverSucceeded(obj))]
             \/ /\ redeliver' = [redeliver EXCEPT ![s] =
                                   SweepFailure(run, e, RedeliverFailed(obj, PUBLISH_ERROR_RABBITMQ_FALSE))]
                /\ UNCHANGED emitted
     /\ UNCHANGED <<rate, keys, etl, crud, mq, now, customers, events, receipts, handler, resend, confirm>>

RedeliverCommit(s) ==
  LET run == redeliver[s]
  IN /\ run.pc = "loop"
     /\ run.todo = {}
     /\ events' = CommitSession(DOMAIN run.cur, run.loaded, run.cur)
     /\ redeliver' = [redeliver EXCEPT ![s] = IdleSweep]
     /\ UNCHANGED <<rate, keys, etl, crud, mq, now, customers, receipts, emitted, handler, resend, confirm>>

\* ------------------------------------------------------ confirm-delivery
ConfirmStatuses == {"received", "processed", "failed"}

\* Attributes confirm_event_delivery assigns
ConfirmColumns == {"deliver_status", "delivered_at", "deliver_failure_reason"}

\* Faulty variant: the duplicate lookup that finds nothing.
ReceiptsForNone(event_id) ==
  {}

\* existing_receipt = db.query(ConsumerEventReceipt).filter(...).first()
ReceiptsFor(event_id) ==
  {i \in 1..Len(receipts) : receipts[i].event_id = event_id}

\* A consumer confirms an event id it has taken from a message of the broker,
\* or an id that no record carries.
ConfirmableIds == (DOMAIN events \cap emitted) \cup {UnknownEventId}

\* Faulty variant: the lookup that answers 200 for an id no record carries.
ConfirmLookupNo404(c, event_id, status) ==
  /\ confirm[c].pc = "idle"
  /\ WorkerFree
  /\ event_id \in ConfirmableIds
  /\ confirm' = [confirm EXCEPT ![c] =
       IF event_id \notin DOMAIN events
       THEN [IdleConfirm EXCEPT !.pc = "return", !.response = 200]
       ELSE IF ReceiptsFor(event_id) # {}
       THEN [IdleConfirm EXCEPT !.pc = "return", !.response = 200,
                                !.event_id = event_id, !.status = status,
                                !.existing_receipt = TRUE]
       ELSE [IdleConfirm EXCEPT !.pc = "insert", !.event_id = event_id,
                                !.status = status,
                                !.loaded = (event_id :> Load(events[event_id], ConfirmColumns))]]
  /\ UNCHANGED <<rate, keys, etl, crud, mq, now, customers, events, receipts, emitted, handler, resend, redeliver>>

\* Faulty variant: a confirmation carrying another status than the stored
\* receipt is processed again.
ConfirmLookupRestated(c, event_id, status) ==
  /\ confirm[c].pc = "idle"
  /\ WorkerFree
  /\ event_id \in ConfirmableIds
  /\ confirm' = [confirm EXCEPT ![c] =
       IF event_id \notin DOMAIN events
       THEN [IdleConfirm EXCEPT !.pc = "return", !.response = 404]
       ELSE IF \E i \in ReceiptsFor(event_id) : receipts[i].processing_status = status
       THEN [IdleConfirm EXCEPT !.pc = "return", !.response = 200,
                                !.event_id = event_id, !.status = status,
                                !.existing_receipt = TRUE]
       ELSE [IdleConfirm EXCEPT !.pc = "insert", !.event_id = event_id,
                                !.status = status,
                                !.loaded = (event_id :> Load(events[event_id], ConfirmColumns))]]
  /\ UNCHANGED <<rate, keys, etl, crud, mq, now, customers, events, receipts, emitted, handler, resend, redeliver>>

\* The event lookup (404 if missing) and the existing-receipt lookup.
ConfirmLookup(c, event_id, status) ==
  /\ confirm[c].pc = "idle"
  /\ WorkerFree
  /\ event_id \in ConfirmableIds
  /\ confirm' = [confirm EXCEPT ![c] =
       IF event_id \notin DOMAIN events
       THEN [IdleConfirm EXCEPT !.pc = "return", !.response = 404]
       ELSE IF ReceiptsFor(event_id) # {}
       THEN [IdleConfirm EXCEPT !.pc = "return", !.response = 200,
                                !.event_id = event_id, !.status = status,
                                !.existing_receipt = TRUE]
       ELSE [IdleConfirm EXCEPT !.pc = "insert", !.event_id = event_id,
                                !.status = status,
                                !.loaded = (event_id :> Load(events[event_id], ConfirmColumns))]]
  /\ UNCHANGED <<rate, keys, etl, crud, mq, now, customers, events, receipts, emitted, handler, resend, redeliver>>

\* ConsumerEventReceipt(...)
NewReceipt(event_id, status) ==
  [ event_id |-> event_id,
    processing_status |-> status,
    processing_failure_reason |-> IF status = "failed" THEN ConsumerFailure ELSE Null ]

\* Update event delivery status (routes.py, confirm_event_delivery)
ConfirmSet(obj, status) ==
  IF status \in {"received", "processed"}
  THEN [obj EXCEPT !.deliver_status = "delivered",
                   !.delivered_at = Stamp,
                   !.deliver_failure_reason = Null]
  ELSE [obj EXCEPT !.deliver_status = "failed",
                   !.deliver_failure_reason = ConsumerFailure]

\* db.add(receipt); ...; db.commit(): consumer_event_receipts has no unique
\* constraint on event_id, so the insert always succeeds.
ConfirmCommit(c) ==
  LET req == confirm[c]
      e == req.event_id
  IN /\ req.pc = "insert"
     /\ receipts' = Append(receipts, NewReceipt(e, req.status))
     /\ events' = [events EXCEPT ![e] = Flush(@, req.loaded[e], ConfirmSet(req.loaded[e], req.status))]
     /\ confirm' = [confirm EXCEPT ![c] = [IdleConfirm EXCEPT !.pc = "return", !.response = 200]]
     /\ UNCHANGED <<rate, keys, etl, crud, mq, now, customers, emitted, handler, resend, redeliver>>

\* return success_response / JSONResponse
ConfirmReturn(c) ==
  /\ confirm[c].pc = "return"
  /\ confirm' = [confirm EXCEPT ![c] = IdleConfirm]
  /\ UNCHANGED <<rate, keys, etl, crud, mq, now, customers, events, receipts, emitted, handler, resend, redeliver>>

\* ------------------------------------------------- broker and consumer
MaxRetries == 3        \* simple_consumer.py: if retry_count >= 3
MaxQueued == 2         \* messages a queue holds at most in the model
MaxDeaths == 2         \* dead-letterings of one message followed in the model

\* A consumer name, cut into the words a routing key is made of ("." cuts
\* words).  Names a client may submit to POST /consumer/data:
SubmittedNames == {<<"acme">>, <<"dlq">>, <<"*">>, <<"#">>, <<"acme", "dlq">>}

\* Faulty variant: any submitted name is accepted.
NameAcceptedAny(name) ==
  Len(name) >= 1

\* ConsumerCreate.name: pattern ^[a-z0-9_]+$, no ".", "*" or "#"
NameAccepted(name) ==
  Len(name) = 1 /\ name[1] \notin {"*", "#"}

ConsumerNames == {name \in SubmittedNames : NameAccepted(name)}

\* queue_name = f'customer_notification_{consumer_name}'
\* dlq_name = f'customer_notification_{consumer_name}_DLQ'
\* (no accepted name ends in _DLQ, so the two never coincide)
queue_name(consumer_name) == <<"customer_notification", consumer_name>>
dlq_name(consumer_name) == <<"customer_notification", consumer_name, "DLQ">>

\* event_type.replace('customer_', '', 1) if event_type.startswith('customer_')
event_suffix(event_type) ==
  CASE event_type = "customer_creation" -> "creation"
    [] event_type = "customer_status_change" -> "status_change"
    [] event_type = "customer_deletion" -> "deletion"
    [] OTHER -> event_type

\* routing_key = f"customer.{event_suffix}.{consumer_name}"
routing_key(event_type, consumer_name) ==
  <<"customer", event_suffix(event_type)>> \o consumer_name

\* routing_key=f'customer.*.{consumer_name}' of the main queue's binding
main_binding(consumer_name) == <<"customer", "*">> \o consumer_name

\* 'x-dead-letter-routing-key': f'customer.dlq.{consumer_name}', also the
\* routing key of the dead-letter queue's binding
dlq_routing_key(consumer_name) == <<"customer", "dlq">> \o consumer_name

\* Matching of a topic exchange: "*" stands for one word, "#" for any number
\* of words.
RECURSIVE TopicMatch(_, _)
TopicMatch(pattern, key) ==
  IF pattern = <<>> THEN key = <<>>
  ELSE IF Head(pattern) = "#"
  THEN TopicMatch(Tail(pattern), key) \/ (key # <<>> /\ TopicMatch(pattern, Tail(key)))
  ELSE /\ key # <<>>
       /\ Head(pattern) = "*" \/ Head(pattern) = Head(key)
       /\ TopicMatch(Tail(pattern), Tail(key))

\* The queues of `qs` to which the exchange routes a message with this key.
RoutedTo(binds, qs, key) ==
  {q \in DOMAIN qs : \E b \in binds : b.queue = q /\ TopicMatch(b.pattern, key)}

\* basic_publish on the exchange customer_events: a copy to every queue bound
\* with a matching pattern, none if no binding matches.
Route(binds, qs, msg) ==
  [q \in DOMAIN qs |->
     IF q \in RoutedTo(binds, qs, msg.routing_key) THEN Append(qs[q], msg) ELSE qs[q]]

\* queue_declare: creates the queue, empty, unless it exists
Declare(qs, q) == IF q \in DOMAIN qs THEN qs ELSE qs @@ (q :> <<>>)

\* queue_bind
Bind(q, pattern) == [queue |-> q, pattern |-> pattern]

\* Message bodies: the one publish_event builds, and bodies another client
\* of the broker may publish: one that is not JSON, one with a field missing
\* (KeyError after event_id was read), one whose "data" is not an object
\* (TypeError after event_id was read).
Bodies == {"event", "not_json", "missing_field", "data_not_object"}

\* message = {...}; properties: no headers
NewMessage(event_id, body, key) ==
  [ event_id |-> event_id, body |-> body, routing_key |-> key,
    x_retry_count |-> 0, x_death |-> 0 ]

Room(qs) == \A q \in DOMAIN qs : Len(qs[q]) < MaxQueued

\* EventPublisher.publish_event, up to the step at which an exception ends it
\* (returning False): 0 connect, 1 exchange_declare, 2 queue_declare of the
\* DLQ, 3 queue_declare of the main queue, 4 and 5 the two queue_bind,
\* 6 basic_publish done (returning True).
PublishSteps == 0..6

publish_event(event_id, event_type, consumer_name, reached) ==
  LET qs1 == IF reached >= 2 THEN Declare(queues, dlq_name(consumer_name)) ELSE queues
      qs2 == IF reached >= 3 THEN Declare(qs1, queue_name(consumer_name)) ELSE qs1
      b1 == IF reached >= 4
            THEN bindings \cup {Bind(queue_name(consumer_name), main_binding(consumer_name))}
            ELSE bindings
      b2 == IF reached >= 5
            THEN b1 \cup {Bind(dlq_name(consumer_name), dlq_routing_key(consumer_name))}
            ELSE b1
      msg == NewMessage(event_id, "event", routing_key(event_type, consumer_name))
  IN /\ Room(queues)
     /\ bindings' = b2
     /\ queues' = IF reached = 6 THEN Route(b2, qs2, msg) ELSE qs2
     /\ UNCHANGED <<consuming, confirmations, channel_calls>>
     /\ UNCHANGED <<rate, keys, etl, crud, now, customers, events, receipts, emitted, handler, resend, redeliver, confirm>>

\* Another client of the broker (the RabbitMQ management UI) publishes a
\* body of its own under the routing key of an event.
ForeignPublish(event_id, event_type, consumer_name, body) ==
  /\ Room(queues)
  /\ body # "event"
  /\ queues' = Route(bindings, queues,
                     NewMessage(event_id, body, routing_key(event_type, consumer_name)))
  /\ UNCHANGED <<bindings, consuming, confirmations, channel_calls>>
  /\ UNCHANGED <<rate, keys, etl, crud, now, customers, events, receipts, emitted, handler, resend, redeliver, confirm>>

\* simple_consumer.main: the declarations and bindings, then basic_consume
ConsumerStart(consumer_name) ==
  /\ consumer_name \notin consuming
  /\ queues' = Declare(Declare(queues, dlq_name(consumer_name)), queue_name(consumer_name))
  /\ bindings' = bindings \cup
       {Bind(queue_name(consumer_name), main_binding(consumer_name)),
        Bind(dlq_name(consumer_name), dlq_routing_key(consumer_name))}
  /\ consuming' = consuming \cup {consumer_name}
  /\ UNCHANGED <<confirmations, channel_calls>>
  /\ UNCHANGED <<rate, keys, etl, crud, now, customers, events, receipts, emitted, handler, resend, redeliver, confirm>>

\* What the try block of callback ends in, by the body received.
Outcome(body) ==
  CASE body = "event" -> "processed"
    [] body \in {"not_json", "missing_field"} -> "permanent_error"
    [] body = "data_not_object" -> "transient_error"

\* event_id as the except blocks see it: None when json.loads raised
EventIdRead(msg) == IF msg.body = "not_json" THEN None ELSE Some(msg.event_id)

\* requests.post(.../events/confirm-delivery) `if event_id`
Report(msg, status) ==
  IF IsNone(EventIdRead(msg)) THEN confirmations
  ELSE confirmations \cup {[event_id |-> msg.event_id, status |-> status]}

\* basic_ack, or the removal that precedes a dead-lettering
Remove(qs, q) == [qs EXCEPT ![q] = Tail(@)]

\* basic_nack(requeue=False) on the main queue: the broker re-publishes the
\* message on the queue's x-dead-letter-exchange (customer_events) under its
\* x-dead-letter-routing-key, headers kept, one more x-death entry.  A
\* rejected message is routed again even to a queue it has been in.
DeadLetter(qs, consumer_name, msg) ==
  Route(bindings, Remove(qs, queue_name(consumer_name)),
        [msg EXCEPT !.routing_key = dlq_routing_key(consumer_name),
                    !.x_death = @ + 1])

\* ch.basic_publish(exchange='customer_events', routing_key=method.routing_key,
\* body=body, properties=new_properties) after the basic_ack
Republish(qs, consumer_name, msg) ==
  Route(bindings, Remove(qs, queue_name(consumer_name)),
        [msg EXCEPT !.x_retry_count = @ + 1])

\* Faulty variant: the retry path republishes without the basic_ack.
ChannelCallsRetryUnacked(outcome, retry_count) ==
  CASE outcome = "processed" -> <<"basic_ack">>
    [] outcome = "permanent_error" -> <<"basic_nack">>
    [] outcome = "transient_error" ->
         IF retry_count >= MaxRetries THEN <<"basic_nack">>
         ELSE <<"basic_publish">>

\* The calls callback makes on ch for one delivery, by the path taken:
\* basic_ack after the prints; basic_nack(requeue=False) in the permanent
\* branch; in the transient branch basic_nack at the ceiling, else basic_ack
\* and then basic_publish.
ChannelCalls(outcome, retry_count) ==
  CASE outcome = "processed" -> <<"basic_ack">>
    [] outcome = "permanent_error" -> <<"basic_nack">>
    [] outcome = "transient_error" ->
         IF retry_count >= MaxRetries THEN <<"basic_nack">>
         ELSE <<"basic_ack", "basic_publish">>

\* simple_consumer.callback on the oldest message of the consumer's queue
callback(consumer_name) ==
  LET q == queue_name(consumer_name)
      msg == Head(queues[q])
      outcome == Outcome(msg.body)
  IN /\ consumer_name \in consuming
     /\ queues[q] # <<>>
     /\ msg.x_death < MaxDeaths
     /\ Len(queues[dlq_name(consumer_name)]) < MaxQueued
     /\ CASE outcome = "processed" ->
               /\ queues' = Remove(queues, q)
               /\ confirmations' = Report(msg, "processed")
          [] outcome = "permanent_error" ->
               /\ queues' = DeadLetter(queues, consumer_name, msg)
               /\ confirmations' = Report(msg, "failed")
          [] outcome = "transient_error" ->
               IF msg.x_retry_count >= MaxRetries
               THEN /\ queues' = DeadLetter(queues, consumer_name, msg)
                    /\ confirmations' = Report(msg, "failed")
               ELSE /\ queues' = Republish(queues, consumer_name, msg)
                    /\ UNCHANGED confirmations
     /\ channel_calls' = ChannelCalls(outcome, msg.x_retry_count)
     /\ UNCHANGED <<bindings, consuming>>
     /\ UNCHANGED <<rate, keys, etl, crud, now, customers, events, receipts, emitted, handler, resend, redeliver, confirm>>

\* ------------------------------------------------------------------ Next
Handlers ==
  \E r \in EventIds :
    \/ \E op \in EventTypes : BusinessCommit(r, op)
    \/ \E op \in EventTypes : RecordEventFirst(r, op)
    \/ DeleteCommit(r)
    \/ \E op \in EventTypes : BusinessCommitWithEvent(r, op)
    \/ RecordEvent(r)
    \/ HandlerPublish(r)
    \/ HandlerCommit(r)
    \/ HandlerFail(r)

ResendSweeper(S) ==
  \E s \in S :
    \/ \E p \in Periods, m \in MaxTryCounts, t \in TypeFilters : ResendSelect(s, p, m, t)
    \/ \E e \in EventIds : ResendAttempt(s, e)
    \/ ResendCommit(s)

RedeliverSweeper(S) ==
  \E s \in S :
    \/ \E p \in Periods, m \in MaxTryCounts, t \in TypeFilters : RedeliverSelect(s, p, m, t)
    \/ \E e \in EventIds : RedeliverAttempt(s, e)
    \/ RedeliverCommit(s)

ConfirmDelivery(S) ==
  \E c \in S :
    \/ \E e \in EventIds \cup {UnknownEventId}, st \in ConfirmStatuses : ConfirmLookup(c, e, st)
    \/ ConfirmCommit(c)
    \/ ConfirmReturn(c)

\* The service: request handlers, one run of each sweeper and one
\* confirm-delivery request at a time, MaxInFlight of them in progress.
Next ==
  \/ Handlers
  \/ ResendSweeper({"rs1"})
  \/ RedeliverSweeper({"rd1"})
  \/ ConfirmDelivery({"cf1"})

Spec == Init /\ [][Next]_vars

\* Two Resend Sweeper runs that may overlap, beside the request handlers.
\* A request the server has taken up runs to its end (or dies).
RequestsEnd ==
  /\ \A r \in EventIds :
       WF_vars(RecordEvent(r) \/ HandlerPublish(r) \/ HandlerCommit(r)
                 \/ DeleteCommit(r) \/ HandlerFail(r))
  /\ WF_vars(\E e \in EventIds : ResendAttempt("rs1", e))
  /\ WF_vars(ResendCommit("rs1"))
  /\ WF_vars(\E e \in EventIds : RedeliverAttempt("rd1", e))
  /\ WF_vars(RedeliverCommit("rd1"))
  /\ WF_vars(ConfirmCommit("cf1") \/ ConfirmReturn("cf1"))

\* The Resend Sweeper is called again and again without max_try_count and
\* event_types.
ResendFairness ==
  SF_vars(\E p \in Periods : ResendSelect("rs1", p, None, None))

\* The steps of Next, each taken once: with the clock at 0 every record is
\* inside both periods, and an empty event_types list selects as None does,
\* so the sweeper calls left out here lead to the states the ones kept lead to.
\* Redelivery runs start while deliver_try_count is under MaxLiveDeliverCount.
NextLive ==
  \/ Handlers
  \/ \E m \in MaxTryCounts, t \in TypeFilters \ {Some({})} : ResendSelect("rs1", 7, m, t)
  \/ \E e \in EventIds : ResendAttempt("rs1", e)
  \/ ResendCommit("rs1")
  \/ /\ \A e \in DOMAIN events : events[e].deliver_try_count < MaxLiveDeliverCount
     /\ \E m \in MaxTryCounts, t \in TypeFilters \ {Some({})} :
          RedeliverSelect("rd1", 7, m, t)
  \/ \E e \in EventIds : RedeliverAttempt("rd1", e)
  \/ RedeliverCommit("rd1")
  \/ ConfirmDelivery({"cf1"})

SpecLive == Init /\ [][NextLive]_vars /\ RequestsEnd /\ ResendFairness

NextResendRace ==
  \/ Handlers
  \/ ResendSweeper(ResendIds)

SpecResendRace == Init /\ [][NextResendRace]_vars

\* Two confirm-delivery requests that may overlap, beside the request handlers.
NextConfirmRace ==
  \/ Handlers
  \/ ConfirmDelivery(ConfirmIds)

SpecConfirmRace == Init /\ [][NextConfirmRace]_vars

\* The broker side: the service publishing events for its consumers, another
\* client publishing bodies of its own, the consumer processes.
PublishedTypes == {"customer_creation", "consumer_created"}

NextBroker ==
  \/ \E e \in EventIds, t \in PublishedTypes, n \in ConsumerNames, k \in PublishSteps :
       publish_event(e, t, n, k)
  \/ \E e \in EventIds, t \in PublishedTypes, n \in ConsumerNames, b \in Bodies :
       ForeignPublish(e, t, n, b)
  \/ \E n \in ConsumerNames : ConsumerStart(n)
  \/ \E n \in ConsumerNames : callback(n)

SpecBroker == Init /\ [][NextBroker]_vars

\* ---------------------------------------------------------------- crud.py
NumCustomers == 2
CustomerIds == 1..NumCustomers
ConsumerUuids == {"consumer_a", "consumer_b"}
CustomerStatuses == {"ACTIVE", "SUSPENDED"}

\* Faulty variant: the query that does not filter on the owner.
OwnerFilterNone(row, consumer_id) ==
  TRUE

\* if consumer_id is not None:
\*     query = query.filter(Customer.consumer_id == consumer_id)
OwnerFilter(row, consumer_id) ==
  IsNone(consumer_id) \/ row.consumer_id = Val(consumer_id)

\* db.query(Customer).filter(Customer.customer_id == customer_id)...first()
FirstCustomer(customer_id, consumer_id) ==
  IF customer_id \in DOMAIN customer_rows
       /\ OwnerFilter(customer_rows[customer_id], consumer_id)
  THEN Some(customer_rows[customer_id])
  ELSE None

Call(fn, customer_id, consumer_id, result) ==
  [fn |-> fn, customer_id |-> customer_id, consumer_id |-> consumer_id, result |-> result]

\* crud.create_customer: the row gets a fresh customer_id and status ACTIVE
create_customer(customer_id, consumer_id) ==
  LET row == [consumer_id |-> consumer_id, status |-> "ACTIVE"]
  IN /\ customer_id \notin DOMAIN customer_rows
     /\ customer_rows' = customer_rows @@ (customer_id :> row)
     /\ crud_call' = Call("create_customer", customer_id, Some(consumer_id), Some(row))
     /\ UNCHANGED <<rate, keys, etl, mq, now, customers, events, receipts, emitted, handler, resend, redeliver, confirm>>

\* crud.get_customer
get_customer(customer_id, consumer_id) ==
  /\ crud_call' = Call("get_customer", customer_id, consumer_id,
                       FirstCustomer(customer_id, consumer_id))
  /\ UNCHANGED customer_rows
  /\ UNCHANGED <<rate, keys, etl, mq, now, customers, events, receipts, emitted, handler, resend, redeliver, confirm>>

\* crud.delete_customer
delete_customer(customer_id, consumer_id) ==
  LET db_customer == FirstCustomer(customer_id, consumer_id)
  IN /\ IF ~IsNone(db_customer)
        THEN /\ customer_rows' = [c \in DOMAIN customer_rows \ {customer_id} |-> customer_rows[c]]
             /\ crud_call' = Call("delete_customer", customer_id, consumer_id, TRUE)
        ELSE /\ UNCHANGED customer_rows
             /\ crud_call' = Call("delete_customer", customer_id, consumer_id, FALSE)
     /\ UNCHANGED <<rate, keys, etl, mq, now, customers, events, receipts, emitted, handler, resend, redeliver, confirm>>

\* crud.update_customer_status
update_customer_status(customer_id, new_status, consumer_id) ==
  LET db_customer == FirstCustomer(customer_id, consumer_id)
  IN /\ IF ~IsNone(db_customer)
        THEN /\ customer_rows' = [customer_rows EXCEPT ![customer_id].status = new_status]
             /\ crud_call' = Call("update_customer_status", customer_id, consumer_id,
                                  Some([Val(db_customer) EXCEPT !.status = new_status]))
        ELSE /\ UNCHANGED customer_rows
             /\ crud_call' = Call("update_customer_status", customer_id, consumer_id, None)
     /\ UNCHANGED <<rate, keys, etl, mq, now, customers, events, receipts, emitted, handler, resend, redeliver, confirm>>

\* consumer_id arguments: a consumer's UUID, or None (the default)
ConsumerArgs == {None} \cup {Some(u) : u \in ConsumerUuids}

NextCrud ==
  \/ \E c \in CustomerIds, u \in ConsumerUuids : create_customer(c, u)
  \/ \E c \in CustomerIds, u \in ConsumerArgs : get_customer(c, u)
  \/ \E c \in CustomerIds, u \in ConsumerArgs : delete_customer(c, u)
  \/ \E c \in CustomerIds, st \in CustomerStatuses, u \in ConsumerArgs :
       update_customer_status(c, st, u)

SpecCrud == Init /\ [][NextCrud]_vars

\* Sweeper runs over a table that holds several records of several ages.
NumSweepEvents == 2
SweepEventIds == 1..NumSweepEvents

\* Days, relative to now, at which the records were created.
CreatedAts == {0 - 10, 0 - 7, 0 - 3, 0}

\* Attempts the records have behind them, and the max_try_count the runs are
\* called with: one that sets the two apart, or none.
SweepTries == {8, 9}
SweepMaxTryCounts == {None, Some(9)}

\* A record still pending after `tries` publish attempts.
PendingRow(event_type, created_at, tries) ==
  [NewEvent(event_type, created_at) EXCEPT
     !.publish_try_count = tries,
     !.publish_failure_reason = IF tries > 1 THEN PUBLISH_ERROR_RABBITMQ_FALSE ELSE Null]

\* A record published by its handler and re-published `tries - 1` times.
PublishedRow(event_type, created_at, tries) ==
  [HandlerSet(NewEvent(event_type, created_at), "pub_true") EXCEPT
     !.deliver_try_count = tries]

\* Rows the table can hold when a sweeper run starts.
SweepRows ==
  { PendingRow(t, c, k) : t \in {"customer_status_change", "consumer_created"},
                          c \in CreatedAts, k \in SweepTries }
  \cup
  { PublishedRow(t, c, k) : t \in {"customer_status_change", "consumer_created"},
                            c \in CreatedAts, k \in SweepTries }

InitSweep ==
  /\ now = 0
  /\ customers = SweepEventIds
  /\ events \in [SweepEventIds -> SweepRows]
  /\ receipts = <<>>
  /\ emitted = {e \in SweepEventIds : events[e].publish_status = "published"}
  /\ handler = [r \in EventIds |-> [pc |-> "idle", op |-> "none"]]
  /\ resend = [s \in ResendIds |-> IdleSweep]
  /\ redeliver = [s \in RedeliverIds |-> IdleSweep]
  /\ confirm = [c \in ConfirmIds |-> IdleConfirm]
  /\ bindings = {}
  /\ queues = <<>>
  /\ consuming = {}
  /\ confirmations = {}
  /\ channel_calls = <<>>
  /\ customer_rows = <<>>
  /\ crud_call = NoCall
  /\ InitEtl
  /\ InitKeys
  /\ InitRate

NextSweep ==
  \/ \E p \in Periods, m \in SweepMaxTryCounts, t \in TypeFilters : ResendSelect("rs1", p, m, t)
  \/ \E e \in SweepEventIds : ResendAttempt("rs1", e)
  \/ ResendCommit("rs1")
  \/ \E p \in Periods, m \in SweepMaxTryCounts, t \in TypeFilters : RedeliverSelect("rd1", p, m, t)
  \/ \E e \in SweepEventIds : RedeliverAttempt("rd1", e)
  \/ RedeliverCommit("rd1")

SpecSweep == InitSweep /\ [][NextSweep]_vars

\* ------------------------------------------- consumer_analytics_etl.py
Retries == 2            \* default_args: "retries": 2

\* Tries of a task: the first and its retries
MaxLoadTries == Retries + 1

EtlTables == {"customers", "customer_events"}

\* Time passes.
EtlTick ==
  /\ etl_clock < MaxEtlClock
  /\ etl_clock' = etl_clock + 1
  /\ UNCHANGED <<etl_rows, etl_watermark, etl_snapshots, etl_run>>
  /\ UNCHANGED <<rate, keys, crud, mq, now, customers, events, receipts, emitted, handler, resend, redeliver, confirm>>

\* The customer service inserts a row: created_at is the current instant.
EtlInsertRow(table) ==
  /\ Len(etl_rows) < NumEtlRows
  /\ etl_rows' = Append(etl_rows, [table |-> table, created_at |-> etl_clock])
  /\ UNCHANGED <<etl_clock, etl_watermark, etl_snapshots, etl_run>>
  /\ UNCHANGED <<rate, keys, crud, mq, now, customers, events, receipts, emitted, handler, resend, redeliver, confirm>>

\* get_watermark
get_watermark == etl_watermark.last_processed_timestamp

\* SELECT ... FROM <table> WHERE created_at > %s: the rows the query counts
NewRows(table, watermark) ==
  {i \in DOMAIN etl_rows :
     etl_rows[i].table = table /\ etl_rows[i].created_at > watermark}

\* Task 1: reads the watermark, counts the customers created after it,
\* pushes customer_metrics and watermark to XCom.
extract_customer_counts ==
  /\ IsNone(etl_run.customer_metrics)
  /\ etl_run' = [etl_run EXCEPT
                   !.customer_metrics = Some(NewRows("customers", get_watermark)),
                   !.watermark = Some(get_watermark)]
  /\ UNCHANGED <<etl_clock, etl_rows, etl_watermark, etl_snapshots>>
  /\ UNCHANGED <<rate, keys, crud, mq, now, customers, events, receipts, emitted, handler, resend, redeliver, confirm>>

\* Task 2: reads the watermark, counts the events created after it, pushes
\* event_metrics to XCom.
extract_event_counts ==
  /\ IsNone(etl_run.event_metrics)
  /\ etl_run' = [etl_run EXCEPT
                   !.event_metrics = Some(NewRows("customer_events", get_watermark))]
  /\ UNCHANGED <<etl_clock, etl_rows, etl_watermark, etl_snapshots>>
  /\ UNCHANGED <<rate, keys, crud, mq, now, customers, events, receipts, emitted, handler, resend, redeliver, confirm>>

\* update_watermark(cursor, job_name, new_timestamp, status, ...) committed
update_watermark(new_timestamp, status) ==
  [last_processed_timestamp |-> new_timestamp, last_run_status |-> status]

\* The run after a failed try of the load task: Airflow tries the task again
\* with the same XCom values until the retries are used up.
AfterFailedLoad ==
  IF etl_run.load_tries + 1 >= MaxLoadTries THEN IdleEtlRun
  ELSE [etl_run EXCEPT !.load_tries = @ + 1]

\* Load outcomes: the task returns; an exception inside it with the database
\* still answering; an exception with the database gone.
LoadOutcomes == {"success", "raises", "raises_db_down"}

\* Task 3, after both extract tasks.  With no new data: update_watermark to
\* the current time, commit (try/finally, no except).  With data: a snapshot
\* for the window, update_watermark(snapshot_timestamp, "success"), one
\* commit; on an exception conn.rollback(), then
\* update_watermark(datetime.now(), "failed") and a commit of its own, itself
\* inside try/except.  The snapshot holds the ids of the rows counted, where
\* the table holds their number.  Runs are an interval apart: no two take
\* their snapshot_timestamp at the same instant.
load_consumer_analytics(outcome) ==
  LET customer_metrics == Val(etl_run.customer_metrics)
      event_metrics == Val(etl_run.event_metrics)
      no_new_data == customer_metrics = {} /\ event_metrics = {}
      snapshot_timestamp == etl_clock
  IN /\ ~IsNone(etl_run.customer_metrics)
     /\ ~IsNone(etl_run.event_metrics)
     /\ \A sn \in etl_snapshots : sn.snapshot_timestamp < snapshot_timestamp
     /\ CASE outcome = "success" ->
               /\ etl_snapshots' =
                    IF no_new_data THEN etl_snapshots
                    ELSE etl_snapshots \cup
                           {[ snapshot_timestamp |-> snapshot_timestamp,
                              window |-> customer_metrics \cup event_metrics,
                              watermark_used |-> Val(etl_run.watermark) ]}
               /\ etl_watermark' = update_watermark(snapshot_timestamp, "success")
               /\ etl_run' = IdleEtlRun
          [] outcome = "raises" ->
               /\ etl_watermark' =
                    IF no_new_data THEN etl_watermark
                    ELSE update_watermark(etl_clock, "failed")
               /\ etl_run' = AfterFailedLoad
               /\ UNCHANGED etl_snapshots
          [] outcome = "raises_db_down" ->
               /\ etl_run' = AfterFailedLoad
               /\ UNCHANGED <<etl_watermark, etl_snapshots>>
     /\ UNCHANGED <<etl_clock, etl_rows>>
     /\ UNCHANGED <<rate, keys, crud, mq, now, customers, events, receipts, emitted, handler, resend, redeliver, confirm>>

\* The ETL beside the service that fills the tables it reads; the two
\* extract tasks of a run in either order.
NextEtl ==
  \/ EtlTick
  \/ \E table \in EtlTables : EtlInsertRow(table)
  \/ extract_customer_counts
  \/ extract_event_counts
  \/ \E outcome \in LoadOutcomes : load_consumer_analytics(outcome)

SpecEtl == Init /\ [][NextEtl]_vars

\* ------------------------------------------------ consumers and API keys
\* PostgreSQL at its default isolation level (read committed): a statement
\* sees the rows committed before it began; an UPDATE locks the rows it
\* changes until its transaction ends; an UPDATE that meets a locked row waits
\* for the lock and then tests the row's new version against its WHERE clause,
\* without seeing rows committed after it began.

\* ConsumerApiKey.consumer_id == consumer_id, ConsumerApiKey.status == "active"
ActiveKeysOf(consumer_id) ==
  {i \in DOMAIN api_keys :
     api_keys[i].consumer_id = consumer_id /\ api_keys[i].status = "active"}

\* Rows locked by the open transactions other than t's
LockedByOthers(t) ==
  UNION {key_txn[u].targets : u \in {u \in KeyRequestIds : u # t /\ key_txn[u].pc = "updated"}}

\* CustomerEvent(..., publish_status="pending", publish_try_count=1)
KeyEvent(consumer_id, event_type) ==
  [consumer_id |-> consumer_id, event_type |-> event_type,
   publish_status |-> "pending", publish_try_count |-> 1]

\* ConsumerApiKey(consumer_id=..., status="active")
NewKey(consumer_id) == [consumer_id |-> consumer_id, status |-> "active"]

\* create_consumer: the consumer, its key and the consumer_created event in
\* one commit
create_consumer(consumer_id) ==
  /\ consumer_id \notin consumer_rows
  /\ Len(api_keys) < MaxKeys
  /\ consumer_rows' = consumer_rows \cup {consumer_id}
  /\ api_keys' = Append(api_keys, NewKey(consumer_id))
  /\ key_events' = Append(key_events, KeyEvent(consumer_id, "consumer_created"))
  /\ UNCHANGED key_txn
  /\ UNCHANGED <<rate, etl, crud, mq, now, customers, events, receipts, emitted, handler, resend, redeliver, confirm>>

\* The UPDATE ... SET status = 'deactivated' of rotate_api_key (after
\* get_consumer_by_id found the consumer active) and of deactivate_api_key:
\* the statement begins; it changes the active keys it sees, or waits when
\* another transaction holds one of them.
KeyUpdate(t, op, consumer_id) ==
  /\ key_txn[t].pc = "idle"
  /\ consumer_id \in consumer_rows
  /\ key_txn' = [key_txn EXCEPT ![t] =
       [ pc |-> IF ActiveKeysOf(consumer_id) \cap LockedByOthers(t) = {}
                THEN "updated" ELSE "waiting",
         op |-> op, consumer_id |-> consumer_id,
         targets |-> ActiveKeysOf(consumer_id) ]]
  /\ UNCHANGED <<consumer_rows, api_keys, key_events>>
  /\ UNCHANGED <<rate, etl, crud, mq, now, customers, events, receipts, emitted, handler, resend, redeliver, confirm>>

\* The lock is released: the waiting UPDATE changes those of its rows that
\* are still active.
KeyUpdateResume(t) ==
  /\ key_txn[t].pc = "waiting"
  /\ key_txn[t].targets \cap LockedByOthers(t) = {}
  /\ key_txn' = [key_txn EXCEPT ![t].pc = "updated",
                                ![t].targets = {i \in @ : api_keys[i].status = "active"}]
  /\ UNCHANGED <<consumer_rows, api_keys, key_events>>
  /\ UNCHANGED <<rate, etl, crud, mq, now, customers, events, receipts, emitted, handler, resend, redeliver, confirm>>

\* The table with the transaction's updated rows written
Deactivated(table, targets) ==
  [i \in DOMAIN table |->
     IF i \in targets THEN [table[i] EXCEPT !.status = "deactivated"] ELSE table[i]]

\* rotate_api_key from db.add(db_api_key) on: the new key and the
\* consumer_key_rotated event added, db.commit()
RotateCommit(t) ==
  /\ key_txn[t].pc = "updated"
  /\ key_txn[t].op = "rotate"
  /\ Len(api_keys) < MaxKeys
  /\ api_keys' = Append(Deactivated(api_keys, key_txn[t].targets),
                        NewKey(key_txn[t].consumer_id))
  /\ key_events' = Append(key_events,
                          KeyEvent(key_txn[t].consumer_id, "consumer_key_rotated"))
  /\ key_txn' = [key_txn EXCEPT ![t] = IdleKeyTxn]
  /\ UNCHANGED consumer_rows
  /\ UNCHANGED <<rate, etl, crud, mq, now, customers, events, receipts, emitted, handler, resend, redeliver, confirm>>

\* deactivate_api_key after the UPDATE: `if result > 0` the
\* consumer_key_deactivated event added and db.commit(); else return
\* (False, None) with nothing written.
DeactivateCommit(t) ==
  /\ key_txn[t].pc = "updated"
  /\ key_txn[t].op = "deactivate"
  /\ IF key_txn[t].targets # {}
     THEN /\ api_keys' = Deactivated(api_keys, key_txn[t].targets)
          /\ key_events' = Append(key_events,
                 KeyEvent(key_txn[t].consumer_id, "consumer_key_deactivated"))
     ELSE UNCHANGED <<api_keys, key_events>>
  /\ key_txn' = [key_txn EXCEPT ![t] = IdleKeyTxn]
  /\ UNCHANGED consumer_rows
  /\ UNCHANGED <<rate, etl, crud, mq, now, customers, events, receipts, emitted, handler, resend, redeliver, confirm>>

NextKeys ==
  \/ \E c \in ConsumerUuids : create_consumer(c)
  \/ \E t \in KeyRequestIds, op \in {"rotate", "deactivate"}, c \in ConsumerUuids :
       KeyUpdate(t, op, c)
  \/ \E t \in KeyRequestIds : KeyUpdateResume(t)
  \/ \E t \in KeyRequestIds : RotateCommit(t)
  \/ \E t \in KeyRequestIds : DeactivateCommit(t)

SpecKeys == Init /\ [][NextKeys]_vars

\* ------------------------------------------------- rate_limit_middleware
Minute == 60            \* math.floor(current_timestamp / 60)
Ttl == 60               \* redis_client.expire(redis_key, 60)

\* minute_bucket = math.floor(current_timestamp / 60)
MinuteBucket(clock) == (clock * SecondsPerTick) \div Minute

\* f"ratelimit:consumer:{consumer_id}:{minute_bucket}"
redis_key(consumer_id, minute_bucket) == <<"ratelimit", "consumer", consumer_id, minute_bucket>>

\* Time passes; Redis drops the keys whose time to live is over.
RateTick ==
  /\ rl_clock < MaxRateClock
  /\ rl_clock' = rl_clock + 1
  /\ redis' = [k \in {k \in DOMAIN redis :
                        IsNone(redis[k].expire_at) \/ Val(redis[k].expire_at) > rl_clock + 1}
                 |-> redis[k]]
  /\ UNCHANGED rl_requests
  /\ UNCHANGED <<keys, etl, crud, mq, now, customers, events, receipts, emitted, handler, resend, redeliver, confirm>>

\* rate_limit_middleware up to redis_key: the request is authenticated, the
\* Redis client is there, the minute bucket is computed from utcnow().
RateStart(r, consumer_id) ==
  /\ rl_requests[r].pc = "idle"
  /\ rl_requests' = [rl_requests EXCEPT ![r] =
       [@ EXCEPT !.pc = "keyed", !.consumer_id = consumer_id,
                 !.minute_bucket = MinuteBucket(rl_clock)]]
  /\ UNCHANGED <<rl_clock, redis>>
  /\ UNCHANGED <<keys, etl, crud, mq, now, customers, events, receipts, emitted, handler, resend, redeliver, confirm>>

\* INCR key: the value of a key that is not there counts as 0; a key made by
\* INCR has no time to live.
Incr(store, k) ==
  IF k \in DOMAIN store
  THEN [store EXCEPT ![k].value = @ + 1]
  ELSE [j \in DOMAIN store \cup {k} |->
          IF j = k THEN [value |-> 1, expire_at |-> None] ELSE store[j]]

\* current_count = redis_client.incr(redis_key)
RateIncr(r) ==
  LET k == redis_key(rl_requests[r].consumer_id, rl_requests[r].minute_bucket)
  IN /\ rl_requests[r].pc = "keyed"
     /\ redis' = Incr(redis, k)
     /\ rl_requests' = [rl_requests EXCEPT ![r] =
          [@ EXCEPT !.pc = "counted", !.current_count = redis'[k].value,
                    !.incr_at = rl_clock]]
     /\ UNCHANGED rl_clock
     /\ UNCHANGED <<keys, etl, crud, mq, now, customers, events, receipts, emitted, handler, resend, redeliver, confirm>>

\* EXPIRE key seconds: nothing when the key is not there
Expire(store, k, seconds) ==
  IF k \in DOMAIN store
  THEN [store EXCEPT ![k].expire_at = Some(rl_clock + seconds \div SecondsPerTick)]
  ELSE store

\* The rest of the middleware: `if current_count == 1` the expire call, then
\* `if current_count > limit` HTTPException 429, else the request goes on.
\* (The audit logging of the 429 path has keys of its own.)
RateCheck(r) ==
  LET k == redis_key(rl_requests[r].consumer_id, rl_requests[r].minute_bucket)
  IN /\ rl_requests[r].pc = "counted"
     /\ redis' = IF rl_requests[r].current_count = 1 THEN Expire(redis, k, Ttl) ELSE redis
     /\ rl_requests' = [rl_requests EXCEPT ![r].pc =
          IF rl_requests[r].current_count > limit THEN "429" ELSE "passed"]
     /\ UNCHANGED rl_clock
     /\ UNCHANGED <<keys, etl, crud, mq, now, customers, events, receipts, emitted, handler, resend, redeliver, confirm>>

\* Requests of the consumers, each running the middleware once, overlapping
\* at will.
NextRate ==
  \/ RateTick
  \/ \E r \in RateRequestIds, c \in ConsumerUuids : RateStart(r, c)
  \/ \E r \in RateRequestIds : RateIncr(r)
  \/ \E r \in RateRequestIds : RateCheck(r)

SpecRate == Init /\ [][NextRate]_vars

TypeOK ==
  /\ now = 0
  /\ customers \subseteq EventIds
  /\ DOMAIN events \subseteq EventIds
  /\ \A e \in DOMAIN events :
       /\ events[e].publish_status \in {"pending", "published", "failed"}
       /\ events[e].deliver_status \in {"pending", "delivered", "failed"}
       /\ events[e].publish_try_count \in 1..MaxPublishTries
       /\ events[e].deliver_try_count \in 0..(MaxDeliverCount + 1)

\* ================================================================ claims
\* Receipts stored for an event id, counted on the table itself.
ReceiptCount(table, e) ==
  Cardinality({i \in 1..Len(table) : table[i].event_id = e})

\* ---------------------------------------------------------------- C1
\* C1: a Resend Sweeper run that starts while a record is published does not
\* select it (whatever window, max_try_count and event_types it is called
\* with); and a run makes no publish attempt for, and writes nothing to, a
\* record it did not select: every step of the run leaves the record as it is.
C1_PublishedNotResent ==
  [][\A s \in ResendIds : \A e \in DOMAIN events :
       (/\ resend'[s] # resend[s]
        /\ events[e].publish_status = "published"
        /\ e \notin DOMAIN resend[s].cur)
         => /\ e \notin DOMAIN resend'[s].cur
            /\ e \notin resend'[s].todo
            /\ events'[e] = events[e]]_vars

\* A run in progress that selected nothing while the record, published by an
\* earlier resend, sits in the table.
C1_Witness ==
  \E s \in ResendIds : \E e \in DOMAIN events :
    /\ resend[s].pc = "loop"
    /\ resend[s].total_pending = 0
    /\ events[e].publish_status = "published"
    /\ events[e].publish_try_count > 1
    /\ handler[e].pc = "done"

\* ---------------------------------------------------------------- C2
\* C2: at most one Delivery Receipt per event_id in every reachable state,
\* also when two confirm-delivery requests for the same event_id overlap.
C2_OneReceiptPerEvent ==
  \A e \in EventIds : ReceiptCount(receipts, e) <= 1

\* ---------------------------------------------------------------- C3
\* C3: two confirm-delivery calls in sequence for the same event_id with
\* status=processed: the first leaves exactly one receipt and
\* deliver_status=delivered; the second, finding the receipt, inserts nothing
\* and changes neither the receipts nor the event record.
C3_SecondConfirmIsNoOp ==
  [][\A c \in ConfirmIds : \A e \in DOMAIN events :
       /\ (confirm[c].pc = "insert" /\ confirm'[c].pc = "return"
             /\ confirm[c].event_id = e /\ confirm[c].status = "processed")
            => /\ ReceiptCount(receipts, e) = 0
               /\ ReceiptCount(receipts', e) = 1
               /\ events'[e].deliver_status = "delivered"
       /\ (confirm[c].pc = "idle" /\ confirm'[c].event_id = e
             /\ ReceiptCount(receipts, e) >= 1)
            => /\ confirm'[c].pc = "return" /\ confirm'[c].response = 200
               /\ receipts' = receipts /\ events' = events
       /\ ReceiptCount(receipts, e) >= 1 => ReceiptCount(receipts', e) = 1]_vars

\* The second call has answered 200 on finding the receipt of the first.
C3_Witness ==
  \E c \in ConfirmIds : \E e \in DOMAIN events :
    /\ confirm[c].pc = "return" /\ confirm[c].response = 200
    /\ confirm[c].existing_receipt /\ confirm[c].event_id = e
    /\ ReceiptCount(receipts, e) = 1
    /\ receipts[1].processing_status = "processed"
    /\ events[e].deliver_status = "delivered"

\* ---------------------------------------------------------------- C4
\* C4 as stated: in every reachable state a record whose publish_try_count is
\* 10 or more has publish_status = failed.
C4_CeilingMeansFailed ==
  \A e \in DOMAIN events :
    events[e].publish_try_count >= MaxPublishTries
      => events[e].publish_status = "failed"

\* C4 amended: a record whose publish_try_count is 10 or more is no longer
\* pending: it is failed, or it is published with published_at set because
\* the attempt that brought the count to 10 was accepted by the broker.
C4_CeilingMeansNotPending ==
  \A e \in DOMAIN events :
    events[e].publish_try_count >= MaxPublishTries
      => \/ events[e].publish_status = "failed"
         \/ /\ events[e].publish_status = "published"
            /\ events[e].published_at # Null
            /\ e \in emitted

\* A record marked failed by the attempt that brought its count to 10.
C4_Witness ==
  \E e \in DOMAIN events :
    /\ events[e].publish_try_count = MaxPublishTries
    /\ events[e].publish_status = "failed"
    /\ events[e].publish_failure_reason # Null

\* ---------------------------------------------------------------- C5
\* C5: while every publish attempt for a record has failed (the broker has
\* accepted no message for it), (a) the record is failed as soon as its count
\* has reached 10, that is no later than the tenth attempt after creation with
\* count 1; (b) failed is terminal: the record stays failed, a Resend Sweeper
\* run that starts afterwards does not select it (so total_pending does not
\* count it), and no step of the sweeper emits for it or changes it.
C5_FailedAtCeilingAndTerminal ==
  /\ [](\A e \in DOMAIN events :
          (e \notin emitted /\ events[e].publish_try_count >= MaxPublishTries)
            => events[e].publish_status = "failed")
  /\ [][\A e \in DOMAIN events :
          (e \notin emitted /\ events[e].publish_status = "failed")
            => /\ events'[e].publish_status = "failed"
               /\ \A s \in ResendIds :
                    resend'[s] # resend[s]
                      => /\ e \notin DOMAIN resend'[s].cur
                         /\ resend[s].pc = "idle"
                              => resend'[s].total_pending
                                   = Cardinality(DOMAIN resend'[s].cur)
                         /\ events'[e] = events[e]
                         /\ e \notin emitted']_vars

\* A run started after the record failed at count 10 without any accepted
\* message: it has selected nothing.
C5_Witness ==
  \E s \in ResendIds : \E e \in DOMAIN events :
    /\ e \notin emitted
    /\ events[e].publish_try_count = MaxPublishTries
    /\ events[e].publish_status = "failed"
    /\ resend[s].pc = "loop"
    /\ resend[s].total_pending = 0

\* ---------------------------------------------------------------- C6
\* C6: in every reachable state a record whose deliver_status is not pending
\* has publish_status = published, also when confirm-delivery arrives after
\* the broker accepted the message and before the publisher committed.
C6_DeliveredImpliesPublished ==
  \A e \in DOMAIN events :
    events[e].deliver_status # "pending"
      => events[e].publish_status = "published"

\* ---------------------------------------------------------------- C7
\* C7: in every reachable state publish_status = published exactly when
\* published_at is set and publish_failure_reason is null.
C7_PublishedIffStampedAndClean ==
  \A e \in DOMAIN events :
    events[e].publish_status = "published"
      <=> (events[e].published_at # Null /\ events[e].publish_failure_reason = Null)

\* ---------------------------------------------------------------- C8
\* C8: with two overlapping Resend Sweeper runs, a record that a run has
\* committed as published (the request that created it having ended without
\* a write) is never afterwards changed to failed or pending, nor given a
\* non-null failure reason.
C8_PublishedSurvivesOtherRun ==
  [][\A e \in DOMAIN events :
       (/\ handler[e].pc = "failed"
        /\ events[e].publish_status = "published"
        /\ events[e].publish_failure_reason = Null)
         => /\ events'[e].publish_status = "published"
            /\ events'[e].publish_failure_reason = Null]_vars

\* ---------------------------------------------------------------- C9
\* C9: the stored publish_try_count and deliver_try_count of a record never
\* decrease from one committed state to the next, also when sweeper runs
\* commit in another order than they read.
C9_TryCountsNeverDecrease ==
  [][\A e \in DOMAIN events :
       /\ events'[e].publish_try_count >= events[e].publish_try_count
       /\ events'[e].deliver_try_count >= events[e].deliver_try_count]_vars

\* ---------------------------------------------------------------- C10
\* C10: no committed state holds a business mutation (customer created, status
\* changed, consumer created, key rotated) without the pending event record
\* of that mutation.
C10_MutationHasEventRecord ==
  \A r \in customers : r \in DOMAIN events

\* ---------------------------------------------------------------- C11
\* C11: the outcome of the publish call (accepted, returned False, raised)
\* does not change the outcome of the business operation.  A committed
\* mutation is never undone; the publish step itself writes nothing; after a
\* failed publish the handler's commit records the failure reason on the event
\* record and nothing else, and goes on to the success response, where the
\* mutation is committed.
C11_BrokerIndependent ==
  [][\A r \in EventIds :
       /\ r \in customers => r \in customers'
       /\ (handler[r].pc = "recorded" /\ handler'[r].pc \in {"pub_true", "pub_false", "pub_raise"})
            => events' = events /\ customers' = customers /\ receipts' = receipts
       /\ (handler[r].pc \in {"pub_false", "pub_raise"} /\ handler'[r].pc \in {"done", "committed"})
            => /\ customers' = customers
               /\ events' = [events EXCEPT ![r].publish_failure_reason =
                                IF handler[r].pc = "pub_false"
                                THEN PUBLISH_ERROR_RABBITMQ_FALSE ELSE PublishException]
       /\ handler'[r].pc = "done" => r \in customers']_vars

\* delete_customer has answered 200 with the customer deleted although the
\* broker took no message: the record is pending with the failure reason.
C11_Witness ==
  \E r \in DOMAIN events :
    /\ handler[r].pc = "done" /\ handler[r].op = "customer_deletion"
    /\ r \in customers
    /\ r \notin emitted
    /\ events[r].publish_status = "pending"
    /\ events[r].publish_failure_reason = PUBLISH_ERROR_RABBITMQ_FALSE

\* ---------------------------------------------------------------- C12
\* C12: for every handler that records an event, when the broker is reachable
\* and accepts the message on the first attempt (publish_event is not answered
\* False by the broker), the request ends with the event record at
\* publish_status = published, published_at set, publish_failure_reason null
\* and deliver_try_count = 1.
C12_FirstPublishSucceeds ==
  [][\A r \in DOMAIN events :
       (/\ handler[r].pc \in {"pub_true", "pub_raise"}
        /\ handler'[r].pc \in {"done", "committed"})
         => /\ events'[r].publish_status = "published"
            /\ events'[r].published_at # Null
            /\ events'[r].publish_failure_reason = Null
            /\ events'[r].deliver_try_count = 1]_vars

\* ---------------------------------------------------------------- C13
\* C13: when the handler's first publish attempt fails (publish_event returns
\* False or the call raises), the handler's commit gives the record a non-null
\* publish_failure_reason and changes no other column; on a record no other
\* request has written, that is publish_status = pending, publish_try_count = 1,
\* published_at unset and the delivery sub-state as created.
C13_FirstPublishFailureRecorded ==
  [][\A r \in DOMAIN events :
       (/\ handler[r].pc \in {"pub_false", "pub_raise"}
        /\ handler'[r].pc \in {"done", "committed"})
         => /\ events'[r].publish_failure_reason # Null
            /\ \A c \in DOMAIN events[r] \ {"publish_failure_reason"} :
                 events'[r][c] = events[r][c]
            /\ events[r] = HandlerLoaded(r)
                 => /\ events'[r].publish_status = "pending"
                    /\ events'[r].publish_try_count = 1
                    /\ events'[r].published_at = Null
                    /\ events'[r].deliver_status = "pending"
                    /\ events'[r].deliver_try_count = 0
                    /\ events'[r].deliver_last_tried_at = Null]_vars

\* change_customer_status has ended after publish_event returned False.
C13_Witness ==
  \E r \in DOMAIN events :
    /\ handler[r].pc = "done" /\ handler[r].op = "customer_status_change"
    /\ r \notin emitted
    /\ events[r] = [HandlerLoaded(r) EXCEPT
                       !.publish_failure_reason = PUBLISH_ERROR_RABBITMQ_FALSE]

\* publish_status of the stored record, "none" while there is no record.
StoredPublishStatus(e) ==
  IF e \in DOMAIN events THEN events[e].publish_status ELSE "none"

\* ---------------------------------------------------------------- C14
\* C14: with the Resend Sweeper run again and again with a window that covers
\* the record and no max_try_count, every pending record eventually is
\* published or failed; and a record for which an attempt of the sweeper was
\* accepted by the broker eventually is published.
C14_PendingEventuallySettled ==
  \A e \in EventIds :
    /\ (StoredPublishStatus(e) = "pending")
         ~> (StoredPublishStatus(e) \in {"published", "failed"})
    /\ (/\ resend["rs1"].pc = "loop"
        /\ e \in DOMAIN resend["rs1"].cur
        /\ resend["rs1"].cur[e].publish_status = "published")
         ~> (StoredPublishStatus(e) = "published")

\* A record left pending by its handler and published by a later resend.
C14_Witness ==
  \E e \in DOMAIN events :
    /\ handler[e].pc = "done"
    /\ events[e].publish_status = "published"
    /\ events[e].publish_try_count > 1
    /\ events[e].deliver_try_count = 0

\* ---------------------------------------------------------------- C15
\* C15: only confirm-delivery sets deliver_status = delivered: every step that
\* turns a record's deliver_status into delivered is the commit of a
\* confirm-delivery request for that event; no handler, Resend Sweeper or
\* Redeliver Sweeper step does it, whether its publish succeeds or fails.
C15_OnlyConfirmDelivers ==
  [][\A e \in DOMAIN events :
       (events[e].deliver_status # "delivered" /\ events'[e].deliver_status = "delivered")
         => /\ \E c \in ConfirmIds :
                 /\ confirm[c].pc = "insert" /\ confirm[c].event_id = e
                 /\ confirm[c].status \in {"received", "processed"}
                 /\ confirm'[c].pc = "return"
            /\ handler' = handler /\ resend' = resend /\ redeliver' = redeliver]_vars

\* A record re-published by the Redeliver Sweeper with success and by no one
\* confirmed: its deliver_status is still pending.
C15_Witness ==
  \E e \in DOMAIN events :
    /\ events[e].deliver_try_count >= 2
    /\ events[e].deliver_failure_reason = Null
    /\ events[e].deliver_status = "pending"
    /\ receipts = <<>>
    /\ \A s \in RedeliverIds : redeliver[s].pc = "idle"

\* ---------------------------------------------------------------- C16
\* C16: a Redeliver Sweeper run selects only records that are
\* publish_status = published and deliver_status = pending when it starts,
\* whatever window, max_try_count and event_types it is called with; a record
\* that is publish-pending or publish-failed, or delivered or delivery-failed,
\* does not enter its selection, and the run makes no attempt for and writes
\* nothing to a record outside its selection.
C16_RedeliverSelectsPublishedPending ==
  [][\A s \in RedeliverIds : \A e \in DOMAIN events :
       (/\ redeliver'[s] # redeliver[s]
        /\ e \notin DOMAIN redeliver[s].cur
        /\ ~(events[e].publish_status = "published" /\ events[e].deliver_status = "pending"))
         => /\ e \notin DOMAIN redeliver'[s].cur
            /\ e \notin redeliver'[s].todo
            /\ events'[e] = events[e]]_vars

\* A run that selected nothing while the table holds a record that its
\* handler left publish-pending.
C16_Witness ==
  \E s \in RedeliverIds : \E e \in DOMAIN events :
    /\ redeliver[s].pc = "loop"
    /\ redeliver[s].total_pending = 0
    /\ events[e].publish_status = "pending"
    /\ events[e].publish_failure_reason # Null
    /\ handler[e].pc = "done"

\* ---------------------------------------------------------------- C17
\* C17: delivery retries are bounded by the ceiling of 10: in every reachable
\* state a record whose deliver_try_count has reached 10 is no longer
\* deliver_status = pending (so that no later Redeliver Sweeper run selects
\* it), whether the earlier re-publishes succeeded or failed.
C17_DeliverCeilingEndsPending ==
  \A e \in DOMAIN events :
    events[e].deliver_try_count >= MaxDeliverTries
      => events[e].deliver_status # "pending"

\* ---------------------------------------------------------------- C18
\* C18: a successful resend seeds the delivery-attempt fields as a successful
\* first publish does: in every reachable state a record with
\* publish_status = published has deliver_try_count >= 1 and
\* deliver_last_tried_at set.
C18_PublishedHasDeliverySeed ==
  \A e \in DOMAIN events :
    events[e].publish_status = "published"
      => /\ events[e].deliver_try_count >= 1
         /\ events[e].deliver_last_tried_at # Null

\* ---------------------------------------------------------------- C19
\* C19: when the broker is unreachable for a whole Resend Sweeper run (every
\* publish_event call of the run returned False and none was accepted), the
\* run short-circuits: the summary it returns has attempted = 0 and
\* skipped = total_pending, and its commit leaves publish_try_count,
\* publish_status and publish_failure_reason of every selected record as they
\* were.
C19_OutageRunShortCircuits ==
  [][\A s \in DOMAIN resend :
       LET run == resend[s]
       IN (/\ run.pc = "loop"
           /\ run.todo = {}
           /\ resend'[s].pc = "idle"
           /\ run.succeeded = 0
           /\ run.failed_events # {}
           /\ \A e \in run.failed_events :
                run.cur[e].publish_failure_reason = PUBLISH_ERROR_RABBITMQ_FALSE)
          => /\ run.attempted = 0
             /\ run.skipped = run.total_pending
             /\ \A e \in DOMAIN run.cur :
                  /\ events'[e].publish_try_count = events[e].publish_try_count
                  /\ events'[e].publish_status = events[e].publish_status
                  /\ events'[e].publish_failure_reason = events[e].publish_failure_reason]_vars

\* ---------------------------------------------------------------- C20
\* C20: a confirm-delivery call for an event_id that matches no event record
\* answers 404 at its lookup, with the receipts and the event records
\* unchanged; a call for a known id never answers 404; and no stored receipt
\* ever carries an event_id that no record has.
C20_UnknownEventIs404 ==
  [][/\ \A c \in ConfirmIds :
          (confirm[c].pc = "idle" /\ confirm'[c].pc # "idle")
            => IF confirm'[c].event_id \notin DOMAIN events
               THEN /\ confirm'[c].pc = "return"
                    /\ confirm'[c].response = 404
                    /\ receipts' = receipts
                    /\ events' = events
               ELSE confirm'[c].response # 404
     /\ \A c \in ConfirmIds :
          (confirm[c].pc = "return" /\ confirm[c].response = 404 /\ confirm'[c] # confirm[c])
            => /\ confirm'[c].pc = "idle"
               /\ receipts' = receipts
               /\ events' = events
     /\ \A i \in 1..Len(receipts') : receipts'[i].event_id \in DOMAIN events']_vars

\* A call has answered 404 while an event record and its receipt exist.
C20_Witness ==
  \E c \in ConfirmIds :
    /\ confirm[c].pc = "return" /\ confirm[c].response = 404
    /\ confirm[c].event_id \notin DOMAIN events
    /\ DOMAIN events # {}
    /\ Len(receipts) = 1

\* ---------------------------------------------------------------- C21
\* C21: when a receipt already exists for the event_id, confirm-delivery
\* answers 200 and changes nothing, whatever status the call carries: from its
\* lookup to its return the receipts and the event records stay as they are
\* (a first confirmation failed followed by processed leaves the receipt
\* failed and deliver_status = failed).
C21_ExistingReceiptNoSideEffect ==
  [][\A c \in ConfirmIds :
       /\ (/\ confirm[c].pc = "idle" /\ confirm'[c].pc # "idle"
           /\ confirm'[c].event_id \in DOMAIN events
           /\ ReceiptCount(receipts, confirm'[c].event_id) >= 1)
            => /\ confirm'[c].pc = "return"
               /\ confirm'[c].response = 200
               /\ receipts' = receipts
               /\ events' = events
       /\ (/\ confirm[c].pc = "return" /\ confirm[c].existing_receipt
           /\ confirm'[c] # confirm[c])
            => /\ confirm'[c].pc = "idle"
               /\ receipts' = receipts
               /\ events' = events]_vars

\* A confirmation processed has answered 200 on the receipt of an earlier
\* confirmation failed; receipt and record still say failed.
C21_Witness ==
  \E c \in ConfirmIds : \E e \in DOMAIN events :
    /\ confirm[c].pc = "return" /\ confirm[c].response = 200
    /\ confirm[c].existing_receipt /\ confirm[c].event_id = e
    /\ confirm[c].status = "processed"
    /\ Len(receipts) = 1
    /\ receipts[1].event_id = e
    /\ receipts[1].processing_status = "failed"
    /\ events[e].deliver_status = "failed"
    /\ events[e].delivered_at = Null

\* ---------------------------------------------------------------- C22
\* C22: a message the consumer rejects without requeue reaches the tenant's
\* dead-letter queue only: no main queue ever holds a message that has been
\* dead-lettered (x-death set), so a rejected message is not delivered to the
\* consumer again.
C22_DeadLetteredOnlyInDlq ==
  \A n \in ConsumerNames :
    queue_name(n) \in DOMAIN queues
      => \A i \in 1..Len(queues[queue_name(n)]) : queues[queue_name(n)][i].x_death = 0

\* ---------------------------------------------------------------- C23
\* C23: for a message whose processing fails with a transient error every
\* time, each callback below the ceiling of 3 replaces it in the same queue
\* by a copy under the same routing key with x-retry-count one higher (never
\* above 3) and reports nothing; the callback at x-retry-count >= 3 reports
\* failed, puts it in the dead-letter queue and leaves it in the main queue no
\* more, so that the consumer does not process it again.
C23_TransientRetryTerminates ==
  [][\A n \in consuming :
       LET q == queue_name(n)
           d == dlq_name(n)
           msg == Head(queues[q])
       IN (/\ queues[q] # <<>>
           /\ msg.body = "data_not_object"
           /\ \/ Len(queues'[q]) < Len(queues[q])
              \/ SubSeq(queues'[q], 1, Len(queues[q])) # queues[q])
          => /\ msg.x_retry_count <= MaxRetries
             /\ IF msg.x_retry_count < MaxRetries
                THEN /\ queues'[q] = Append(Tail(queues[q]),
                                            [msg EXCEPT !.x_retry_count = @ + 1])
                     /\ queues'[d] = queues[d]
                     /\ confirmations' = confirmations
                ELSE /\ queues'[q] = Tail(queues[q])
                     /\ queues'[d] = Append(queues[d],
                                            [msg EXCEPT !.routing_key = dlq_routing_key(n),
                                                        !.x_death = @ + 1])
                     /\ [event_id |-> msg.event_id, status |-> "failed"] \in confirmations']_vars

\* The retries and the report alone, without the message's absence from the
\* main queue after its rejection.
C23_RetriesCountedAndReported ==
  [][\A n \in consuming :
       LET q == queue_name(n)
           d == dlq_name(n)
           msg == Head(queues[q])
       IN (/\ queues[q] # <<>>
           /\ msg.body = "data_not_object"
           /\ \/ Len(queues'[q]) < Len(queues[q])
              \/ SubSeq(queues'[q], 1, Len(queues[q])) # queues[q])
          => /\ msg.x_retry_count <= MaxRetries
             /\ IF msg.x_retry_count < MaxRetries
                THEN /\ queues'[q] = Append(Tail(queues[q]),
                                            [msg EXCEPT !.x_retry_count = @ + 1])
                     /\ queues'[d] = queues[d]
                     /\ confirmations' = confirmations
                ELSE /\ queues'[d] = Append(queues[d],
                                            [msg EXCEPT !.routing_key = dlq_routing_key(n),
                                                        !.x_death = @ + 1])
                     /\ [event_id |-> msg.event_id, status |-> "failed"] \in confirmations']_vars

\* ---------------------------------------------------------------- C24
\* The queues and the bindings of one consumer name, as a step leaves them.
TenantQueues(qs, n) ==
  [q \in {queue_name(n), dlq_name(n)} \cap DOMAIN qs |-> qs[q]]

TenantBindings(binds, n) ==
  {b \in binds : b.queue \in {queue_name(n), dlq_name(n)}}

\* C24: publishing for tenant A, to whatever step it gets, declares and binds
\* A's main queue and A's dead-letter queue only, and enqueues the message in
\* no queue of another tenant B: every step changes the queues and bindings of
\* at most one accepted consumer name, every queue and binding belongs to an
\* accepted name, and every message a tenant's queue holds carries a routing
\* key made for that tenant.
C24_TenantQueuesIsolated ==
  [][/\ \A a \in ConsumerNames : \A b \in ConsumerNames \ {a} :
          (\/ TenantQueues(queues', a) # TenantQueues(queues, a)
           \/ TenantBindings(bindings', a) # TenantBindings(bindings, a))
            => /\ TenantQueues(queues', b) = TenantQueues(queues, b)
               /\ TenantBindings(bindings', b) = TenantBindings(bindings, b)
     /\ \A q \in DOMAIN queues' :
          \E n \in ConsumerNames : q \in {queue_name(n), dlq_name(n)}
     /\ \A b \in bindings' :
          \E n \in ConsumerNames :
            \/ b = Bind(queue_name(n), main_binding(n))
            \/ b = Bind(dlq_name(n), dlq_routing_key(n))
     /\ \A n \in ConsumerNames : \A q \in DOMAIN TenantQueues(queues', n) :
          \A i \in 1..Len(queues'[q]) :
            queues'[q][i].routing_key[Len(queues'[q][i].routing_key)] = n[Len(n)]]_vars

\* An event published for one tenant sits in that tenant's queue while the
\* other tenant's queues, declared and bound, are empty, and a publish for
\* the other tenant has stopped after its declarations.
C24_Witness ==
  \E a \in ConsumerNames : \E b \in ConsumerNames \ {a} :
    /\ {queue_name(a), dlq_name(a), queue_name(b), dlq_name(b)} \subseteq DOMAIN queues
    /\ \E i \in 1..Len(queues[queue_name(a)]) : queues[queue_name(a)][i].body = "event"
    /\ queues[queue_name(b)] = <<>> /\ queues[dlq_name(b)] = <<>>
    /\ TenantBindings(bindings, b) = {}
    /\ b \notin consuming

\* ---------------------------------------------------------------- C25
\* A step of a sweeper run: either one record leaves the to-do set, attempted
\* or skipped, the run going on whatever the attempt gave; or the run ends,
\* and then nothing is left to do and every selected record it did not skip
\* was attempted once (its try count is one above the count as loaded).
RunGoesOn(run, after, tries) ==
  \/ /\ after.pc = "loop"
     /\ \E e \in run.todo :
          /\ after.todo = run.todo \ {e}
          /\ \A f \in DOMAIN run.cur \ {e} : after.cur[f] = run.cur[f]
          /\ IF e \in run.skip
             THEN after.skipped = run.skipped + 1 /\ after.attempted = run.attempted
             ELSE after.skipped = run.skipped /\ after.attempted = run.attempted + 1
  \/ /\ after.pc = "idle"
     /\ run.todo = {}
     /\ run.attempted = Cardinality(DOMAIN run.cur \ run.skip)
     /\ \A e \in DOMAIN run.cur \ run.skip : run.cur[e][tries] = run.loaded[e][tries] + 1

\* C25: within one Resend or Redeliver Sweeper run a failed or raising
\* publish for one record does not abort the run: every other selected,
\* non-skipped record is still attempted exactly once and the run ends in its
\* commit and summary.
C25_FailureDoesNotAbortRun ==
  [][/\ \A s \in ResendIds :
          (resend[s].pc = "loop" /\ resend'[s] # resend[s])
            => RunGoesOn(resend[s], resend'[s], "publish_try_count")
     /\ \A s \in RedeliverIds :
          (redeliver[s].pc = "loop" /\ redeliver'[s] # redeliver[s])
            => RunGoesOn(redeliver[s], redeliver'[s], "deliver_try_count")]_vars

\* A Resend run over two records is at its commit: the publish for one
\* raised, the other was attempted and accepted.
C25_Witness ==
  \E s \in ResendIds :
    /\ resend[s].pc = "loop" /\ resend[s].todo = {}
    /\ resend[s].total_pending = 2
    /\ resend[s].attempted = 2
    /\ \E e \in resend[s].failed_events :
         resend[s].cur[e].publish_failure_reason = PublishException
    /\ \E e \in DOMAIN resend[s].cur :
         resend[s].cur[e].publish_status = "published"

\* ---------------------------------------------------------------- C26
\* C26: a Resend Sweeper run called with (window_days, max_try_count,
\* event_types) selects, counts in total_pending and sets out to attempt
\* exactly the records with created_at > now - window_days, publish_status =
\* pending, publish_try_count < max_try_count if given and event_type in
\* event_types if given (a record 10 days old is outside a window of 7 days);
\* and no step of the run attempts or writes a record it did not select.
C26_ResendSelectsByPredicate ==
  [][\A s \in ResendIds :
       /\ \A p \in Periods, m \in SweepMaxTryCounts, t \in TypeFilters :
            (resend[s].pc = "idle" /\ resend'[s].pc # "idle" /\ ResendSelect(s, p, m, t))
              => LET sel == {e \in DOMAIN events :
                              /\ events[e].created_at > now - p
                              /\ events[e].publish_status = "pending"
                              /\ m = None \/ events[e].publish_try_count < m[1]
                              /\ t = None \/ events[e].event_type \in t[1]}
                 IN /\ DOMAIN resend'[s].cur = sel
                    /\ resend'[s].todo = sel
                    /\ resend'[s].skip = {}
                    /\ resend'[s].total_pending = Cardinality(sel)
       /\ (resend[s].pc = "loop" /\ resend'[s] # resend[s])
            => \A e \in DOMAIN events \ DOMAIN resend[s].cur :
                 /\ events'[e] = events[e]
                 /\ e \in emitted' => e \in emitted]_vars

\* The same for the runs called without event_types or with a list that is
\* not empty.
C26_SelectsByPredicateGivenTypes ==
  [][\A s \in ResendIds :
       /\ \A p \in Periods, m \in SweepMaxTryCounts, t \in TypeFilters \ {Some({})} :
            (resend[s].pc = "idle" /\ resend'[s].pc # "idle" /\ ResendSelect(s, p, m, t))
              => LET sel == {e \in DOMAIN events :
                              /\ events[e].created_at > now - p
                              /\ events[e].publish_status = "pending"
                              /\ m = None \/ events[e].publish_try_count < m[1]
                              /\ t = None \/ events[e].event_type \in t[1]}
                 IN /\ DOMAIN resend'[s].cur = sel
                    /\ resend'[s].todo = sel
                    /\ resend'[s].skip = {}
                    /\ resend'[s].total_pending = Cardinality(sel)
       /\ (resend[s].pc = "loop" /\ resend'[s] # resend[s])
            => \A e \in DOMAIN events \ DOMAIN resend[s].cur :
                 /\ events'[e] = events[e]
                 /\ e \in emitted' => e \in emitted]_vars

C28_CrudEnforcesOwner ==
  [][\A c \in DOMAIN customer_rows :
       \A b \in ConsumerUuids \ {customer_rows[c].consumer_id} :
         /\ get_customer(c, Some(b))
              => crud_call'.result = None /\ customer_rows' = customer_rows
         /\ delete_customer(c, Some(b))
              => crud_call'.result = FALSE /\ customer_rows' = customer_rows
         /\ \A st \in CustomerStatuses :
              update_customer_status(c, st, Some(b))
                => crud_call'.result = None /\ customer_rows' = customer_rows]_vars

\* Tenant B's update of tenant A's customer has returned None and the row is
\* still there with the status A gave it.
C28_Witness ==
  /\ crud_call.fn = "update_customer_status"
  /\ crud_call.customer_id \in DOMAIN customer_rows
  /\ crud_call.consumer_id # None
  /\ customer_rows[crud_call.customer_id].consumer_id # crud_call.consumer_id[1]
  /\ crud_call.result = None
  /\ customer_rows[crud_call.customer_id].status = "SUSPENDED"

\* ---------------------------------------------------------------- C29
\* The counters of a run add up, and failed_events holds the records the run
\* has attempted and that carry a failure reason (a success clears it).
SummaryAddsUp(run, reason) ==
  run.pc = "loop"
    => /\ run.total_pending = run.attempted + run.skipped + Cardinality(run.todo)
       /\ run.attempted = run.succeeded + run.failed
       /\ Cardinality(run.failed_events) = run.failed
       /\ run.failed_events =
            {e \in DOMAIN run.cur \ (run.todo \cup run.skip) : run.cur[e][reason] # Null}

\* C29: every summary returned by the Resend Sweeper and by the Redeliver
\* Sweeper satisfies total_pending = attempted + skipped, attempted =
\* succeeded + failed, and failed_events has `failed` entries, which are
\* exactly the records whose attempt failed in this run (the summary is the
\* counters of a run with nothing left to do).
C29_SummaryConsistent ==
  /\ \A s \in ResendIds : SummaryAddsUp(resend[s], "publish_failure_reason")
  /\ \A s \in RedeliverIds : SummaryAddsUp(redeliver[s], "deliver_failure_reason")

\* A Redeliver run over two records is about to return its summary: one
\* re-publish failed, one was accepted.
C29_Witness ==
  \E s \in RedeliverIds :
    /\ redeliver[s].pc = "loop" /\ redeliver[s].todo = {}
    /\ redeliver[s].total_pending = 2
    /\ redeliver[s].succeeded = 1
    /\ redeliver[s].failed = 1
    /\ Cardinality(redeliver[s].failed_events) = 1

\* ---------------------------------------------------------------- C30
\* C30: deliver_status = delivered is absorbing: once confirm-delivery has
\* committed it for a record, no later step changes it, the commit of a
\* Redeliver Sweeper run that loaded the record while it was pending
\* included.
C30_DeliveredIsAbsorbing ==
  [][\A e \in DOMAIN events :
       events[e].deliver_status = "delivered"
         => events'[e].deliver_status = "delivered"]_vars

\* ---------------------------------------------------------------- C31
\* How many of the calls are basic_ack or basic_nack
RECURSIVE SettleCount(_)
SettleCount(calls) ==
  IF calls = <<>> THEN 0
  ELSE (IF Head(calls) \in {"basic_ack", "basic_nack"} THEN 1 ELSE 0)
       + SettleCount(Tail(calls))

\* C31: whichever path callback takes for a delivery (success, permanent
\* error, transient error below the ceiling, transient error at the ceiling),
\* it calls basic_ack or basic_nack exactly once for it: never both, never
\* neither.
C31_DeliverySettledOnce ==
  [][\A n \in ConsumerNames :
       (n \in consuming /\ queues[queue_name(n)] # <<>> /\ callback(n))
         => SettleCount(channel_calls') = 1]_vars

\* A delivery that failed at the retry ceiling: the callback has called
\* basic_nack alone and the message, with x-retry-count 3, is in the DLQ.
C31_Witness ==
  /\ channel_calls = <<"basic_nack">>
  /\ \E n \in ConsumerNames :
       /\ dlq_name(n) \in DOMAIN queues
       /\ \E i \in 1..Len(queues[dlq_name(n)]) :
            /\ queues[dlq_name(n)][i].x_retry_count = MaxRetries
            /\ queues[dlq_name(n)][i].body = "data_not_object"

C33_FailedLoadKeepsWatermark ==
  [][\A outcome \in LoadOutcomes \ {"success"} :
       load_consumer_analytics(outcome)
         => etl_watermark'.last_processed_timestamp
              = etl_watermark.last_processed_timestamp]_vars

\* ---------------------------------------------------------------- C34
\* How many committed snapshots have the row in their window
WindowsOf(snapshots, i) == Cardinality({sn \in snapshots : i \in sn.window})

\* C34: over successive successful runs every customer row and every event
\* row is in the window of exactly one run: when a load succeeds and sets the
\* watermark to its own current time, every row created after the watermark
\* its extract tasks read and not after the new one, the rows created between
\* the extract and the load included, is counted in one committed snapshot.
C34_EveryRowInOneWindow ==
  [][load_consumer_analytics("success")
       => \A i \in DOMAIN etl_rows :
            ( /\ etl_rows[i].created_at > Val(etl_run.watermark)
              /\ etl_rows[i].created_at <= etl_watermark'.last_processed_timestamp )
            => WindowsOf(etl_snapshots', i) = 1]_vars

\* ---------------------------------------------------------------- C35
\* C35: after any sequence of create_consumer, rotate_api_key and
\* deactivate_api_key, two overlapping rotate_api_key calls for one consumer
\* included, each consumer has at most one API key of status active, and each
\* commit that changes keys adds exactly one pending event record.
C35_OneActiveKeyAndOneEvent ==
  [][/\ \A c \in ConsumerUuids :
          Cardinality({i \in DOMAIN api_keys' :
                         api_keys'[i].consumer_id = c /\ api_keys'[i].status = "active"}) <= 1
     /\ api_keys' # api_keys
          => /\ Len(key_events') = Len(key_events) + 1
             /\ key_events'[Len(key_events')].publish_status = "pending"]_vars

\* ---------------------------------------------------------------- C36
\* The requests of the consumer's minute bucket that have passed
Passed(consumer_id, minute_bucket) ==
  {r \in RateRequestIds :
     /\ rl_requests[r].pc = "passed"
     /\ rl_requests[r].consumer_id = consumer_id
     /\ rl_requests[r].minute_bucket = minute_bucket}

\* C36: with Redis available, for each consumer and each one-minute bucket at
\* most `limit` requests pass rate_limit_middleware, concurrent requests
\* included.
C36_AtMostLimitPass ==
  \A c \in ConsumerUuids, b \in 0..MinuteBucket(MaxRateClock) :
    Cardinality(Passed(c, b)) <= limit

\* The same for the requests whose INCR reaches Redis within their minute.
C36_AtMostLimitPassInTime ==
  \A c \in ConsumerUuids, b \in 0..MinuteBucket(MaxRateClock) :
    Cardinality({r \in Passed(c, b) :
                   MinuteBucket(rl_requests[r].incr_at) = b}) <= limit
====
